---------------------------- MODULE Spec2Model ----------------------------
(***************************************************************************)
(* k9sight: the interactive state machine of the terminal dashboard.       *)
(*                                                                         *)
(*   Root Controller  app.Model            (src/CONTRIBUTING.md, pkg app)  *)
(*   Navigator        components.Navigator (navigator.go)                  *)
(*   Dashboard        views.Dashboard      (src/unnamed/part_004)          *)
(*   Overlays         ActionMenu, PodActionMenu (action_menu.go),          *)
(*                    ResultViewer (part_002), HelpPanel (manifest.go),    *)
(*                    ConfirmDialog (not in the sources: from the spec)    *)
(*                                                                         *)
(* Strings are sequences of one-character strings, so that lower-casing    *)
(* and substring search are computed and not assumed.                      *)
(***************************************************************************)
EXTENDS Integers, Sequences, FiniteSets, Bags, TLC

VARIABLES
    app,        \* app.Model: view, loading, err, help, workload, pod, ...
    nav,        \* components.Navigator
    dash,       \* views.Dashboard with its overlays
    inflight,   \* bag of issued commands whose result message is pending
    last        \* the message handled by the last step, the commands it
                \* returned and the components the message was delivered to

vars == <<app, nav, dash, inflight, last>>

(***************************************************************************)
(* Bounds of the model                                                     *)
(***************************************************************************)
MaxItems == 2       \* longest list a cluster call returns
MaxQueryLen == 1    \* longest filter text typed
MaxLoads == 2       \* most loads and ticks of the Root Controller in flight
MaxInFlight == 1    \* most commands of the Dashboard in flight
MaxTotal == 50      \* longest list the windowed rendering is given
MaxPending == 3     \* most commands in flight while pods are visited
MaxResults == 2     \* most Dashboard results in flight for the pod actions
MaxVersions == 2    \* answers the cluster gives for one pod's dashboard data

(***************************************************************************)
(* Text                                                                    *)
(***************************************************************************)
\* strings.ToLower, one character
LowerChar(c) ==
    CASE c = "G" -> "g"
      [] c = "R" -> "r"
      [] c = "F" -> "f"
      [] OTHER -> c

\* strings.ToLower
ToLower(s) == [i \in DOMAIN s |-> LowerChar(s[i])]

\* strings.Contains
Contains(s, sub) ==
    \E i \in 0..(Len(s) - Len(sub)) : SubSeq(s, i + 1, i + Len(sub)) = sub

(***************************************************************************)
(* Key bindings (keys.DefaultKeyMap)                                       *)
(***************************************************************************)
KeyUp == {"up", "k"}
KeyDown == {"down", "j"}
KeyHome == {"g", "home"}
KeyEnd == {"G", "end"}
KeyPageUp == {"pgup", "ctrl+u"}
KeyPageDown == {"pgdown", "ctrl+d"}
KeyEnter == {"enter"}
KeyBack == {"esc"}
KeyQuit == {"q", "ctrl+c"}
KeyHelp == {"?"}
KeyRefresh == {"r"}
KeySearch == {"/"}
KeyClear == {"c"}
KeyNextPanel == {"tab"}
KeyPrevPanel == {"shift+tab"}
KeyPanel1 == {"1"}
KeyPanel2 == {"2"}
KeyPanel3 == {"3"}
KeyPanel4 == {"4"}
KeyNamespace == {"n"}
KeyResourceType == {"t"}
KeyToggleFullView == {"v"}

\* key.Matches
KeyMatches(k, binding) == k \in binding

\* keys that produce one rune in a text input
PrintableKeys ==
    {"q", "?", "r", "n", "t", "/", "c", "g", "G", "k", "j", "v", "x", "y",
     "F", "e", "1", "2", "3", "4", "5", "6", "7", "8", "9"}

(***************************************************************************)
(* Cluster data                                                            *)
(***************************************************************************)
NameTable == << <<"n", "g">>, <<"G", "c">>, <<"r">>, <<"t", "n">> >>
StatusTable == << <<"R">>, <<"c">>, <<"R", "n">>, <<"q">> >>
NodeTable == << <<"q">>, <<"t">>, <<"g">>, <<"r">> >>

Pick(table, i) == table[((i - 1) % Len(table)) + 1]

WorkloadAt(i) == [id |-> i, name |-> Pick(NameTable, i), status |-> Pick(StatusTable, i)]
ContainerTable == << <<"c1">>, <<>>, <<"c1", "c2">> >>
PodAt(i) == [id |-> i, name |-> Pick(NameTable, i + 1), status |-> Pick(StatusTable, i + 1),
             node |-> Pick(NodeTable, i), containers |-> Pick(ContainerTable, i)]
NamespaceAt(i) == Pick(NameTable, i + 2)

WorkloadLists == {[i \in 1..n |-> WorkloadAt(i)] : n \in 0..MaxItems}
PodLists == {[i \in 1..n |-> PodAt(i)] : n \in 0..MaxItems}
NamespaceLists == {[i \in 1..n |-> NamespaceAt(i)] : n \in 0..MaxItems}

\* k8s.AllResourceTypes
AllResourceTypes ==
    <<"deployments", "statefulsets", "daemonsets", "jobs", "cronjobs", "pods">>

NoItem == [id |-> 0]

(***************************************************************************)
(* Navigator (navigator.go)                                                *)
(***************************************************************************)
CharLimit == 50
PageSize == 10

\* NewNavigator
NewNavigator ==
    [workloads |-> <<>>, pods |-> <<>>, namespaces |-> <<>>,
     cursor |-> 0, mode |-> "Workloads",
     searchInput |-> <<>>, searching |-> FALSE, searchQuery |-> <<>>,
     resourceType |-> "deployments", height |-> 0]

\* the subsequence of the items satisfying Keep, in their order
RECURSIVE FilterSeq(_, _)
FilterSeq(s, keep) ==
    IF s = <<>> THEN <<>>
    ELSE IF Head(s) \in keep THEN <<Head(s)>> \o FilterSeq(Tail(s), keep)
    ELSE FilterSeq(Tail(s), keep)

Range(s) == {s[i] : i \in DOMAIN s}

\* a filter that compares the names as they are written and skips the status
filteredWorkloadsCaseSensitive(n) ==
    IF n.searchQuery = <<>> THEN n.workloads
    ELSE FilterSeq(n.workloads,
             {w \in Range(n.workloads) : Contains(w.name, n.searchQuery)})

filteredWorkloads(n) ==
    IF n.searchQuery = <<>> THEN n.workloads
    ELSE LET query == ToLower(n.searchQuery)
         IN  FilterSeq(n.workloads,
                 {w \in Range(n.workloads) :
                     \/ Contains(ToLower(w.name), query)
                     \/ Contains(ToLower(w.status), query)})

filteredPods(n) ==
    IF n.searchQuery = <<>> THEN n.pods
    ELSE LET query == ToLower(n.searchQuery)
         IN  FilterSeq(n.pods,
                 {p \in Range(n.pods) :
                     \/ Contains(ToLower(p.name), query)
                     \/ Contains(ToLower(p.status), query)
                     \/ Contains(ToLower(p.node), query)})

filteredNamespaces(n) ==
    IF n.searchQuery = <<>> THEN n.namespaces
    ELSE LET query == ToLower(n.searchQuery)
         IN  FilterSeq(n.namespaces,
                 {ns \in Range(n.namespaces) : Contains(ToLower(ns), query)})

maxItems(n) ==
    CASE n.mode = "Workloads" -> Len(filteredWorkloads(n))
      [] n.mode = "Pods" -> Len(filteredPods(n))
      [] n.mode = "Namespace" -> Len(filteredNamespaces(n))
      [] n.mode = "ResourceType" -> Len(AllResourceTypes)
      [] OTHER -> 0

moveUp(n) == IF n.cursor > 0 THEN [n EXCEPT !.cursor = @ - 1] ELSE n

moveDown(n) ==
    LET max == maxItems(n) - 1
    IN  IF n.cursor < max THEN [n EXCEPT !.cursor = @ + 1] ELSE n

pageUp(n) ==
    LET c == n.cursor - PageSize
    IN  [n EXCEPT !.cursor = IF c < 0 THEN 0 ELSE c]

pageDown(n) ==
    LET max == maxItems(n) - 1
        c1 == n.cursor + PageSize
        c2 == IF c1 > max THEN max ELSE c1
    IN  [n EXCEPT !.cursor = IF c2 < 0 THEN 0 ELSE c2]

ClearSearch(n) ==
    [n EXCEPT !.searchQuery = <<>>, !.searchInput = <<>>,
              !.searching = FALSE, !.cursor = 0]

CloseSearch(n) ==
    [n EXCEPT !.searching = FALSE, !.searchQuery = n.searchInput]

\* textinput.Model.Update on a key: a rune is appended up to CharLimit,
\* backspace removes the last rune, every other key leaves the value alone
TextInputUpdate(v, k) ==
    IF k \in PrintableKeys
    THEN IF Len(v) < CharLimit THEN Append(v, k) ELSE v
    ELSE IF k = "backspace" /\ Len(v) > 0 THEN SubSeq(v, 1, Len(v) - 1)
    ELSE v

\* Navigator.Update, search mode (navigator.go 63-76)
NavSearchKey(n, k) ==
    IF k \in {"enter", "esc"}
    THEN [n EXCEPT !.searching = FALSE, !.searchQuery = n.searchInput, !.cursor = 0]
    ELSE LET v == TextInputUpdate(n.searchInput, k)
         IN  [n EXCEPT !.searchInput = v, !.searchQuery = v, !.cursor = 0]

\* Navigator.Update, normal navigation (navigator.go 78-103)
NavNormalKey(n, k) ==
    CASE KeyMatches(k, KeyUp) -> moveUp(n)
      [] KeyMatches(k, KeyDown) -> moveDown(n)
      [] KeyMatches(k, KeyHome) -> [n EXCEPT !.cursor = 0]
      [] KeyMatches(k, KeyEnd) ->
            LET c == maxItems(n) - 1
            IN  [n EXCEPT !.cursor = IF c < 0 THEN 0 ELSE c]
      [] KeyMatches(k, KeyPageUp) -> pageUp(n)
      [] KeyMatches(k, KeyPageDown) -> pageDown(n)
      [] KeyMatches(k, KeySearch) ->
            [n EXCEPT !.searching = TRUE, !.searchInput = n.searchQuery]
      [] KeyMatches(k, KeyClear) -> ClearSearch(n)
      [] OTHER -> n

\* Navigator.Update on a key message
NavUpdateKey(n, k) ==
    IF n.searching THEN NavSearchKey(n, k) ELSE NavNormalKey(n, k)

SetWorkloads(n, workloads) ==
    LET n1 == [n EXCEPT !.workloads = workloads]
    IN  IF n1.cursor >= Len(filteredWorkloads(n1))
        THEN [n1 EXCEPT !.cursor = 0] ELSE n1

SetPods(n, pods) == [n EXCEPT !.pods = pods, !.cursor = 0]

SetNamespaces(n, namespaces) == [n EXCEPT !.namespaces = namespaces]

\* Navigator.SetSize (navigator.go 483-486); the width plays no part
SetSize(n, height) == [n EXCEPT !.height = height]

\* a window that starts at the cursor instead of centring on it
visibleRangeNotCentred(n, total) ==
    LET maxVisible == IF n.height - 8 < 5 THEN 15 ELSE n.height - 8
    IN  IF total > maxVisible
        THEN IF n.cursor + maxVisible > total
             THEN [start |-> IF total - maxVisible < 0 THEN 0 ELSE total - maxVisible,
                   end |-> total]
             ELSE [start |-> n.cursor, end |-> n.cursor + maxVisible]
        ELSE [start |-> 0, end |-> total]

\* a window that is centred on the cursor and not brought back inside the list
visibleRangeUnclamped(n, total) ==
    LET maxVisible == IF n.height - 8 < 5 THEN 15 ELSE n.height - 8
        start == n.cursor - (maxVisible \div 2)
    IN  IF total > maxVisible
        THEN [start |-> start, end |-> start + maxVisible]
        ELSE [start |-> 0, end |-> total]

\* Navigator.visibleRange (navigator.go 368-393)
visibleRange(n, total) ==
    LET maxVisible == IF n.height - 8 < 5 THEN 15 ELSE n.height - 8
        centred == n.cursor - (maxVisible \div 2)
        start == IF centred < 0 THEN 0 ELSE centred
    IN  IF total > maxVisible
        THEN IF start + maxVisible > total
             THEN [start |-> IF total - maxVisible < 0 THEN 0 ELSE total - maxVisible,
                   end |-> total]
             ELSE [start |-> start, end |-> start + maxVisible]
        ELSE [start |-> 0, end |-> total]

SetResourceType(n, rt) == [n EXCEPT !.resourceType = rt]

\* a SetMode that keeps the filter of the mode it leaves
SetModeKeepFilter(n, mode) == [n EXCEPT !.mode = mode, !.cursor = 0]

SetMode(n, mode) == ClearSearch([n EXCEPT !.mode = mode, !.cursor = 0])

\* an accessor that indexes the unfiltered list
SelectedWorkloadRaw(n) ==
    IF n.cursor >= 0 /\ n.cursor < Len(n.workloads)
    THEN n.workloads[n.cursor + 1] ELSE NoItem

SelectedWorkload(n) ==
    LET workloads == filteredWorkloads(n)
    IN  IF n.cursor >= 0 /\ n.cursor < Len(workloads)
        THEN workloads[n.cursor + 1] ELSE NoItem

SelectedPod(n) ==
    LET pods == filteredPods(n)
    IN  IF n.cursor >= 0 /\ n.cursor < Len(pods)
        THEN pods[n.cursor + 1] ELSE NoItem

SelectedNamespace(n) ==
    LET namespaces == filteredNamespaces(n)
    IN  IF n.cursor >= 0 /\ n.cursor < Len(namespaces)
        THEN namespaces[n.cursor + 1] ELSE <<>>

SelectedResourceType(n) ==
    IF n.cursor >= 0 /\ n.cursor < Len(AllResourceTypes)
    THEN AllResourceTypes[n.cursor + 1] ELSE "deployments"


(***************************************************************************)
(* Commands and messages.  A command in flight is the message it resolves  *)
(* to; what the outside world decides (a process's exit status, a cluster  *)
(* answer) is chosen when the message is delivered.                        *)
(***************************************************************************)
NoCmds == {}
NoAction == [label |-> "none"]

\* components.PodActions (action_menu.go 553-614)
ExecItems(pod) ==
    IF Len(pod.containers) = 1
    THEN << [label |-> "Exec (sh)", action |-> "exec",
             command |-> <<"exec-sh", pod.id, "">>],
            [label |-> "Exec (bash)", action |-> "exec",
             command |-> <<"exec-bash", pod.id, "">>] >>
    ELSE IF Len(pod.containers) > 1
    THEN [i \in 1..Len(pod.containers) |->
            [label |-> "Exec into (sh)", action |-> "exec",
             command |-> <<"exec-sh", pod.id, pod.containers[i]>>]]
    ELSE <<>>

PodActions(pod) ==
    << [label |-> "Delete Pod", action |-> "delete",
        command |-> <<"delete", pod.id, "">>] >>
    \o ExecItems(pod)
    \o << [label |-> "Port Forward :8080", action |-> "port-forward",
           command |-> <<"port-forward", pod.id, "">>],
          [label |-> "Describe Pod", action |-> "describe",
           command |-> <<"describe", pod.id, "">>],
          [label |-> "Copy logs command", action |-> "copy",
           command |-> <<"logs-f", pod.id, "">>] >>

\* components.KubectlCommands (action_menu.go 166-226): the labels
KubectlCommands(pod, containerName) ==
    (IF Len(pod.containers) > 1 /\ containerName # ""
     THEN <<"Logs for container", "Exec into container (sh)">> ELSE <<>>)
    \o <<"Get pod logs", "Get pod logs (follow)", "Describe pod", "Get pod YAML",
         "Exec into pod (sh)", "Exec into pod (bash)", "Delete pod">>
    \o (IF containerName # "" \/ Len(pod.containers) > 0
        THEN <<"Get previous container logs">> ELSE <<>>)

\* the index a number shortcut "1".."9" names, -1 for any other key
ShortcutIndex(k) ==
    CASE k = "1" -> 0 [] k = "2" -> 1 [] k = "3" -> 2 [] k = "4" -> 3
      [] k = "5" -> 4 [] k = "6" -> 5 [] k = "7" -> 6 [] k = "8" -> 7
      [] k = "9" -> 8 [] OTHER -> -1

(***************************************************************************)
(* Overlays                                                                *)
(***************************************************************************)
NewMenu == [visible |-> FALSE, selected |-> 0, items |-> <<>>]

\* ActionMenu.Show, PodActionMenu.Show
MenuShow(m, items) == [m EXCEPT !.items = items, !.selected = 0, !.visible = TRUE]

\* the item a key selects in a visible menu: its index from 1, or 0
MenuPick(m, k) ==
    IF k = "enter"
    THEN IF m.selected >= 0 /\ m.selected < Len(m.items) THEN m.selected + 1 ELSE 0
    ELSE IF ShortcutIndex(k) >= 0 /\ ShortcutIndex(k) < Len(m.items)
    THEN ShortcutIndex(k) + 1
    ELSE 0

\* the part of ActionMenu.Update and PodActionMenu.Update that moves the
\* selection or closes the menu
MenuMove(m, k) ==
    CASE k \in {"esc", "q"} -> [m EXCEPT !.visible = FALSE]
      [] k \in {"up", "k"} ->
            IF m.selected > 0 THEN [m EXCEPT !.selected = @ - 1] ELSE m
      [] k \in {"down", "j"} ->
            IF m.selected < Len(m.items) - 1 THEN [m EXCEPT !.selected = @ + 1] ELSE m
      [] OTHER -> m

\* PodActionMenu.Update on a key (action_menu.go 259-306)
PodActionMenuUpdate(m, k) ==
    IF ~m.visible THEN [m |-> m, cmds |-> NoCmds]
    ELSE IF k \notin {"esc", "q", "up", "k", "down", "j"} /\ MenuPick(m, k) > 0
    THEN [m |-> [m EXCEPT !.visible = FALSE],
          cmds |-> {[type |-> "PodActionMenuResult", item |-> m.items[MenuPick(m, k)]]}]
    ELSE [m |-> MenuMove(m, k), cmds |-> NoCmds]

\* ActionMenu.Update on a key (action_menu.go 44-93); clipOk is whether
\* CopyToClipboard succeeds
ActionMenuUpdate(m, k, clipOk) ==
    IF ~m.visible THEN [m |-> m, cmds |-> NoCmds]
    ELSE IF k \notin {"esc", "q", "up", "k", "down", "j"} /\ MenuPick(m, k) > 0
    THEN [m |-> [m EXCEPT !.visible = FALSE],
          cmds |-> {[type |-> "ActionMenuResult", item |-> m.items[MenuPick(m, k)],
                     copied |-> TRUE, err |-> ~clipOk]}]
    ELSE [m |-> MenuMove(m, k), cmds |-> NoCmds]

\* ResultViewer (part_002)
NewResultViewer == [visible |-> FALSE, title |-> 0]

ResultViewerShow(r, title) == [r EXCEPT !.title = title, !.visible = TRUE]

ResultViewerUpdate(r, k) ==
    IF ~r.visible THEN r
    ELSE IF k \in {"esc", "q"} THEN [r EXCEPT !.visible = FALSE]
    ELSE r

\* ConfirmDialog: the component is not among the sources; the dialog of the
\* specification: it carries the action kind and the target as a payload and
\* answers with one ConfirmResult
NewConfirmDialog == [visible |-> FALSE, action |-> "", data |-> 0]

ConfirmDialogShow(c, action, data) ==
    [c EXCEPT !.visible = TRUE, !.action = action, !.data = data]

ConfirmKeys == {"y", "enter"}
CancelKeys == {"n", "esc"}

ConfirmDialogUpdate(c, k) ==
    IF ~c.visible THEN [c |-> c, cmds |-> NoCmds]
    ELSE IF k \in ConfirmKeys
    THEN [c |-> [c EXCEPT !.visible = FALSE],
          cmds |-> {[type |-> "ConfirmResult", confirmed |-> TRUE,
                     action |-> c.action, data |-> c.data]}]
    ELSE IF k \in CancelKeys
    THEN [c |-> [c EXCEPT !.visible = FALSE],
          cmds |-> {[type |-> "ConfirmResult", confirmed |-> FALSE,
                     action |-> c.action, data |-> c.data]}]
    ELSE [c |-> c, cmds |-> NoCmds]


(***************************************************************************)
(* Dashboard (part_004)                                                    *)
(***************************************************************************)
\* the status line: a text and what is appended to it
NoStatus == <<"", "">>

Panels == <<"Logs", "Events", "Metrics", "Manifest">>

PanelIndex(f) == CHOOSE i \in 1..4 : Panels[i] = f

\* NewDashboard
\* what a panel holds: the answer the cluster gave for a pod at one fetch
\* (version tells two answers for the same pod apart), or Nil
Nil == [pod |-> 0, version |-> 0]
Fetched(pod, version) == [pod |-> pod, version |-> version]

NewDashboard ==
    [pod |-> NoItem, focus |-> "Logs", fullscreen |-> FALSE,
     statusMsg |-> NoStatus, pendingAction |-> NoAction,
     help |-> FALSE,
     actionMenu |-> NewMenu, podActionMenu |-> NewMenu,
     confirmDialog |-> NewConfirmDialog, resultViewer |-> NewResultViewer,
     following |-> TRUE, showAll |-> FALSE, showFull |-> FALSE,
     logs |-> Nil, events |-> Nil, metrics |-> Nil, metricsAvailable |-> FALSE,
     related |-> Nil, helpers |-> Nil]

\* Dashboard.SetPod
DashSetPod(d, pod) == [d EXCEPT !.pod = pod]

\* Dashboard.SetLogs, LogsPanel.SetLogs
DashSetLogs(d, logs) == [d EXCEPT !.logs = logs]

\* Dashboard.SetEvents, EventsPanel.SetEvents
DashSetEvents(d, events) == [d EXCEPT !.events = events]

\* a Metrics panel that goes on counting its last metrics as available
DashSetMetricsStayAvailable(d, metrics) ==
    [d EXCEPT !.metrics = metrics, !.metricsAvailable = @ \/ metrics # Nil]

\* Dashboard.SetMetrics, MetricsPanel.SetMetrics (part_001 52-56)
DashSetMetrics(d, metrics) ==
    [d EXCEPT !.metrics = metrics, !.metricsAvailable = metrics # Nil]

\* Dashboard.SetRelated, ManifestPanel.SetRelated
DashSetRelated(d, related) == [d EXCEPT !.related = related]

\* Dashboard.SetHelpers, ManifestPanel.SetHelpers
DashSetHelpers(d, helpers) == [d EXCEPT !.helpers = helpers]

\* the title line of MetricsPanel.View (part_001 37-50), once the panel is
\* sized, which Dashboard.View does before it renders it
MetricsPanelView(d) ==
    IF d.metricsAvailable THEN "Resource Usage"
    ELSE "Resource Usage (metrics-server not available)"

\* the five setters Model.Update calls on a dashboardDataMsg, in its order
DashSetData(d, data) ==
    DashSetHelpers(
        DashSetRelated(
            DashSetMetrics(
                DashSetEvents(DashSetLogs(d, data.logs), data.events),
                data.metrics),
            data.related),
        data.helpers)

\* a nextPanel that also leaves fullscreen
nextPanelToSplit(d) ==
    [d EXCEPT !.focus = Panels[(PanelIndex(d.focus) % 4) + 1], !.fullscreen = FALSE]

\* Dashboard.nextPanel, Dashboard.prevPanel
nextPanel(d) == [d EXCEPT !.focus = Panels[(PanelIndex(d.focus) % 4) + 1]]

prevPanel(d) == [d EXCEPT !.focus = Panels[((PanelIndex(d.focus) + 2) % 4) + 1]]

HasActiveOverlay(d) ==
    \/ d.resultViewer.visible
    \/ d.confirmDialog.visible
    \/ d.podActionMenu.visible
    \/ d.actionMenu.visible
    \/ d.help

\* LogsPanel.IsSearching and LogsPanel.SelectedContainer: the logs panel of
\* the sources has no search and no container selection
LogsIsSearching(d) == FALSE
LogsSelectedContainer(d) == ""

\* the Update of the focused panel (the end of Dashboard.Update): a key the
\* panel binds flips its flag; any other message only reaches its viewport
FocusedPanelUpdate(d, k) ==
    CASE d.focus = "Logs" /\ k = "F" -> [d EXCEPT !.following = ~@]
      [] d.focus = "Events" /\ k = "w" -> [d EXCEPT !.showAll = ~@]
      [] d.focus = "Manifest" /\ k = "f" -> [d EXCEPT !.showFull = ~@]
      [] OTHER -> d

Step(d, cmds, to) == [d |-> d, cmds |-> cmds, to |-> to]

\* Dashboard.Update, ExecFinishedMsg (91-99)
DashExecFinished(d, err) ==
    Step([d EXCEPT !.statusMsg = IF err THEN <<"Command failed: ", "err">>
                                  ELSE <<"Command completed", "">>],
         NoCmds, {"Dashboard"})

\* a Dashboard that opens the result viewer on the error text of a failed describe
DashDescribeOutputShowsError(d, title, err) ==
    Step(IF err THEN [d EXCEPT !.statusMsg = <<"Describe failed: ", "err">>,
                               !.resultViewer = ResultViewerShow(@, title)]
         ELSE [d EXCEPT !.resultViewer = ResultViewerShow(@, title)],
         NoCmds, {"Dashboard"})

\* Dashboard.Update, DescribeOutputMsg (101-109)
DashDescribeOutput(d, title, err) ==
    Step(IF err THEN [d EXCEPT !.statusMsg = <<"Describe failed: ", "err">>]
         ELSE [d EXCEPT !.resultViewer = ResultViewerShow(@, title)],
         NoCmds, {"Dashboard"})

\* Dashboard.Update, ActionMenuResult (111-119)
DashActionMenuResult(d, res) ==
    Step(IF res.copied /\ ~res.err THEN [d EXCEPT !.statusMsg = <<"Copied: ", res.item>>]
         ELSE IF res.err THEN [d EXCEPT !.statusMsg = <<"Copy failed: ", "err">>]
         ELSE d,
         NoCmds, {"Dashboard"})

\* a Dashboard that deletes at the menu selection, without the dialog
DashPodActionMenuResultNoConfirm(d, item, clipOk) ==
    IF item.action = "delete"
    THEN Step([d EXCEPT !.statusMsg = <<"Deleting pod...", "">>],
              {[type |-> "DeletePodRequest", pod |-> d.pod.id]}, {"Dashboard"})
    ELSE Step([d EXCEPT !.pendingAction = IF item.action \in {"exec", "port-forward"}
                                           THEN item ELSE @,
                        !.confirmDialog = IF item.action \in {"exec", "port-forward"}
                                           THEN ConfirmDialogShow(@, item.action, d.pod.id)
                                           ELSE @],
              NoCmds, {"Dashboard"})

\* a Dashboard that asks for confirmation before a copy
DashPodActionMenuResultConfirmCopy(d, item, clipOk) ==
    IF item.action = "copy"
    THEN Step([d EXCEPT !.pendingAction = item,
                        !.confirmDialog = ConfirmDialogShow(@, "copy", d.pod.id)],
              NoCmds, {"Dashboard"})
    ELSE IF item.action = "describe"
    THEN Step([d EXCEPT !.statusMsg = <<"Loading describe...", "">>],
              {[type |-> "DescribeOutputMsg", command |-> item.command,
                title |-> d.pod.id]},
              {"Dashboard"})
    ELSE Step([d EXCEPT !.confirmDialog = ConfirmDialogShow(@, item.action, d.pod.id)],
              NoCmds, {"Dashboard"})

\* Dashboard.Update, PodActionMenuResult (121-180); clipOk is whether
\* CopyToClipboard succeeds
DashPodActionMenuResult(d, item, clipOk) ==
    CASE item.action = "delete" ->
            Step([d EXCEPT !.confirmDialog = ConfirmDialogShow(@, "delete", d.pod.id)],
                 NoCmds, {"Dashboard"})
      [] item.action = "exec" ->
            Step([d EXCEPT !.pendingAction = item,
                           !.confirmDialog = ConfirmDialogShow(@, "exec", d.pod.id)],
                 NoCmds, {"Dashboard"})
      [] item.action = "port-forward" ->
            Step([d EXCEPT !.pendingAction = item,
                           !.confirmDialog = ConfirmDialogShow(@, "port-forward", d.pod.id)],
                 NoCmds, {"Dashboard"})
      [] item.action = "describe" ->
            Step([d EXCEPT !.statusMsg = <<"Loading describe...", "">>],
                 {[type |-> "DescribeOutputMsg", command |-> item.command,
                   title |-> d.pod.id]},
                 {"Dashboard"})
      [] item.action = "copy" ->
            Step([d EXCEPT !.statusMsg = IF clipOk THEN <<"Copied: ", item.label>>
                                             ELSE <<"Copy failed: ", "err">>],
                 NoCmds, {"Dashboard"})
      [] OTHER -> Step(d, NoCmds, {"Dashboard"})

\* a Dashboard that keeps the pending action when the dialog is cancelled
DashConfirmResultKeepPending(d, res) ==
    IF res.confirmed
    THEN CASE res.action = "delete" ->
                Step([d EXCEPT !.statusMsg = <<"Deleting pod...", "">>],
                     {[type |-> "DeletePodRequest", pod |-> res.data]},
                     {"Dashboard"})
           [] res.action \in {"exec", "port-forward"} /\ d.pendingAction # NoAction ->
                Step([d EXCEPT !.pendingAction = NoAction],
                     {[type |-> "ExecProcess", command |-> d.pendingAction.command]},
                     {"Dashboard"})
           [] OTHER -> Step(d, NoCmds, {"Dashboard"})
    ELSE Step(d, NoCmds, {"Dashboard"})

\* Dashboard.Update, ConfirmResult (182-215)
DashConfirmResult(d, res) ==
    IF res.confirmed
    THEN CASE res.action = "delete" ->
                Step([d EXCEPT !.statusMsg = <<"Deleting pod...", "">>],
                     {[type |-> "DeletePodRequest", pod |-> res.data]},
                     {"Dashboard"})
           [] res.action \in {"exec", "port-forward"} ->
                IF d.pendingAction # NoAction
                THEN Step([d EXCEPT !.pendingAction = NoAction],
                          {[type |-> "ExecProcess", command |-> d.pendingAction.command]},
                          {"Dashboard"})
                ELSE Step(d, NoCmds, {"Dashboard"})
           [] OTHER -> Step(d, NoCmds, {"Dashboard"})
    ELSE Step([d EXCEPT !.pendingAction = NoAction], NoCmds, {"Dashboard"})

\* the key bindings of the newer key map, which is not among the sources
KeyPodActions == {"x"}
KeyCopyCommands == {"y"}

\* Dashboard.Update, tea.KeyMsg with no overlay visible (251-333)
DashPanelKey(d, k) ==
    IF d.focus = "Logs" /\ LogsIsSearching(d)
    THEN Step(FocusedPanelUpdate(d, k), NoCmds, {d.focus})
    ELSE LET d1 == [d EXCEPT !.statusMsg = NoStatus]
         IN  CASE KeyMatches(k, KeyPodActions) ->
                    Step(IF d1.pod # NoItem
                         THEN [d1 EXCEPT !.podActionMenu = MenuShow(@, PodActions(d1.pod))]
                         ELSE d1, NoCmds, {"Dashboard"})
               [] KeyMatches(k, KeyCopyCommands) ->
                    Step(IF d1.pod # NoItem
                         THEN [d1 EXCEPT !.actionMenu =
                                  MenuShow(@, KubectlCommands(d1.pod, LogsSelectedContainer(d1)))]
                         ELSE d1, NoCmds, {"Dashboard"})
               [] KeyMatches(k, KeyHelp) -> Step([d1 EXCEPT !.help = ~@], NoCmds, {"Dashboard"})
               [] KeyMatches(k, KeyNextPanel) -> Step(nextPanel(d1), NoCmds, {"Dashboard"})
               [] KeyMatches(k, KeyPrevPanel) -> Step(prevPanel(d1), NoCmds, {"Dashboard"})
               [] KeyMatches(k, KeyPanel1) -> Step([d1 EXCEPT !.focus = "Logs"], NoCmds, {"Dashboard"})
               [] KeyMatches(k, KeyPanel2) -> Step([d1 EXCEPT !.focus = "Events"], NoCmds, {"Dashboard"})
               [] KeyMatches(k, KeyPanel3) -> Step([d1 EXCEPT !.focus = "Metrics"], NoCmds, {"Dashboard"})
               [] KeyMatches(k, KeyPanel4) -> Step([d1 EXCEPT !.focus = "Manifest"], NoCmds, {"Dashboard"})
               [] KeyMatches(k, KeyToggleFullView) ->
                    Step([d1 EXCEPT !.fullscreen = ~@], NoCmds, {"Dashboard"})
               [] OTHER -> Step(FocusedPanelUpdate(d1, k), NoCmds, {d1.focus})

\* a Dashboard that asks the menus before the dialog
DashKeyMenusFirst(d, k, clipOk) ==
    IF d.actionMenu.visible
    THEN LET r == ActionMenuUpdate(d.actionMenu, k, clipOk)
         IN  Step([d EXCEPT !.actionMenu = r.m], r.cmds, {"ActionMenu"})
    ELSE IF d.podActionMenu.visible
    THEN LET r == PodActionMenuUpdate(d.podActionMenu, k)
         IN  Step([d EXCEPT !.podActionMenu = r.m], r.cmds, {"PodActionMenu"})
    ELSE IF d.confirmDialog.visible
    THEN LET r == ConfirmDialogUpdate(d.confirmDialog, k)
         IN  Step([d EXCEPT !.confirmDialog = r.c], r.cmds, {"ConfirmDialog"})
    ELSE IF d.resultViewer.visible
    THEN Step([d EXCEPT !.resultViewer = ResultViewerUpdate(@, k)], NoCmds, {"ResultViewer"})
    ELSE IF d.help
    THEN Step(IF k \in {"?", "esc"} THEN [d EXCEPT !.help = FALSE] ELSE d,
              NoCmds, {"Help"})
    ELSE DashPanelKey(d, k)

\* Dashboard.Update, tea.KeyMsg (217-249): the overlays in their order
DashKey(d, k, clipOk) ==
    IF d.confirmDialog.visible
    THEN LET r == ConfirmDialogUpdate(d.confirmDialog, k)
         IN  Step([d EXCEPT !.confirmDialog = r.c], r.cmds, {"ConfirmDialog"})
    ELSE IF d.resultViewer.visible
    THEN Step([d EXCEPT !.resultViewer = ResultViewerUpdate(@, k)], NoCmds, {"ResultViewer"})
    ELSE IF d.podActionMenu.visible
    THEN LET r == PodActionMenuUpdate(d.podActionMenu, k)
         IN  Step([d EXCEPT !.podActionMenu = r.m], r.cmds, {"PodActionMenu"})
    ELSE IF d.actionMenu.visible
    THEN LET r == ActionMenuUpdate(d.actionMenu, k, clipOk)
         IN  Step([d EXCEPT !.actionMenu = r.m], r.cmds, {"ActionMenu"})
    ELSE IF d.help
    THEN Step(IF k \in {"?", "esc"} THEN [d EXCEPT !.help = FALSE] ELSE d,
              NoCmds, {"Help"})
    ELSE DashPanelKey(d, k)

\* a Dashboard that draws the menus over the dialog and the result viewer
DashViewMenusOnTop(d) ==
    IF d.pod = NoItem THEN "No pod selected"
    ELSE IF d.podActionMenu.visible THEN "PodActionMenu"
    ELSE IF d.actionMenu.visible THEN "ActionMenu"
    ELSE IF d.confirmDialog.visible THEN "ConfirmDialog"
    ELSE IF d.resultViewer.visible THEN "ResultViewer"
    ELSE IF d.help THEN "Help"
    ELSE "Panels"

\* Dashboard.View (344-401): what is drawn on top, the floating overlay or
\* the panels
DashView(d) ==
    IF d.pod = NoItem THEN "No pod selected"
    ELSE IF d.confirmDialog.visible THEN "ConfirmDialog"
    ELSE IF d.resultViewer.visible THEN "ResultViewer"
    ELSE IF d.podActionMenu.visible THEN "PodActionMenu"
    ELSE IF d.actionMenu.visible THEN "ActionMenu"
    ELSE IF d.help THEN "Help"
    ELSE "Panels"

\* Dashboard.Update, any other message: it reaches the focused panel, whose
\* viewport ignores it (318-333)
DashOther(d) == Step(d, NoCmds, {d.focus})


(***************************************************************************)
(* The components driven directly                                          *)
(***************************************************************************)
NoLast == [msg |-> [type |-> "init"], cmds |-> NoCmds, to |-> {}]

KeyMsg(k) == [type |-> "KeyMsg", key |-> k]

\* config.Load: the preferences an earlier run saved, a namespace of the
\* cluster and the default resource type
LoadedConfig ==
    [LastNamespace |-> NamespaceAt(1), LastResourceType |-> "deployments",
     FavoriteItems |-> <<>>]

\* the first index of item in a list, 0 when it is absent
IndexOf(list, item) ==
    IF \E i \in 1..Len(list) : list[i] = item
    THEN CHOOSE i \in 1..Len(list) :
            list[i] = item /\ \A j \in 1..(i - 1) : list[j] # item
    ELSE 0

\* Config.IsFavorite
IsFavorite(c, item) == IndexOf(c.FavoriteItems, item) > 0

\* Config.AddFavorite
AddFavorite(c, item) ==
    IF IndexOf(c.FavoriteItems, item) > 0 THEN c
    ELSE [c EXCEPT !.FavoriteItems = Append(@, item)]

\* a RemoveFavorite that fills the hole with the last item
RemoveFavoriteSwap(c, item) ==
    LET i == IndexOf(c.FavoriteItems, item)
        l == c.FavoriteItems
    IN  IF i = 0 THEN c
        ELSE [c EXCEPT !.FavoriteItems =
                 SubSeq([l EXCEPT ![i] = l[Len(l)]], 1, Len(l) - 1)]

\* Config.RemoveFavorite
RemoveFavorite(c, item) ==
    LET i == IndexOf(c.FavoriteItems, item)
        l == c.FavoriteItems
    IN  IF i = 0 THEN c
        ELSE [c EXCEPT !.FavoriteItems = SubSeq(l, 1, i - 1) \o SubSeq(l, i + 1, Len(l))]

\* app.New: the client starts in the namespace of the preferences
InitApp ==
    [view |-> "Navigator", loading |-> TRUE, err |-> FALSE, help |-> FALSE,
     workload |-> NoItem, pod |-> NoItem, exit |-> "running",
     namespace |-> LoadedConfig.LastNamespace, config |-> LoadedConfig,
     saved |-> LoadedConfig]

\* the commands a step returned join the commands in flight
Issue(bag, cmds) == bag (+) SetToBag(cmds)

\* ---- Navigator -----------------------------------------------------------
NavKeys ==
    {"up", "down", "g", "G", "pgup", "pgdown", "/", "c", "enter", "esc",
     "backspace", "r"}

NavModes == {"Workloads", "Pods", "Namespace", "ResourceType"}

NavInit ==
    /\ nav = NewNavigator
    /\ dash = NewDashboard
    /\ app = InitApp
    /\ inflight = EmptyBag
    /\ last = NoLast

NavCall(n, what) ==
    /\ nav' = n
    /\ last' = [msg |-> what, cmds |-> NoCmds, to |-> {"Navigator"}]
    /\ UNCHANGED <<app, dash, inflight>>

NavKey ==
    \E k \in NavKeys :
        /\ nav.searching /\ k \in PrintableKeys => Len(nav.searchInput) < MaxQueryLen
        /\ NavCall(NavUpdateKey(nav, k), KeyMsg(k))

NavSetWorkloads ==
    \E l \in WorkloadLists : NavCall(SetWorkloads(nav, l), [type |-> "SetWorkloads"])

NavSetPods ==
    \E l \in PodLists : NavCall(SetPods(nav, l), [type |-> "SetPods"])

NavSetNamespaces ==
    \E l \in NamespaceLists : NavCall(SetNamespaces(nav, l), [type |-> "SetNamespaces"])

NavSetMode ==
    \E m \in NavModes : NavCall(SetMode(nav, m), [type |-> "SetMode"])

NavClearSearch == NavCall(ClearSearch(nav), [type |-> "ClearSearch"])

NavCloseSearch == NavCall(CloseSearch(nav), [type |-> "CloseSearch"])

NavNext ==
    \/ NavKey
    \/ NavSetWorkloads
    \/ NavSetPods
    \/ NavSetNamespaces
    \/ NavSetMode
    \/ NavClearSearch
    \/ NavCloseSearch

SpecNav == NavInit /\ [][NavNext]_vars


\* ---- Dashboard -----------------------------------------------------------
DashKeys ==
    {"x", "y", "?", "1", "2", "4", "5", "6", "v", "enter", "esc"}

DashInit ==
    /\ nav = NewNavigator
    /\ dash = DashSetPod(NewDashboard, PodAt(1))
    /\ app = InitApp
    /\ inflight = EmptyBag
    /\ last = NoLast

DashApply(msg, r, rest) ==
    /\ BagCardinality(rest) + Cardinality(r.cmds) <= MaxInFlight
    /\ dash' = r.d
    /\ inflight' = Issue(rest, r.cmds)
    /\ last' = [msg |-> msg, cmds |-> r.cmds, to |-> r.to]
    /\ UNCHANGED <<app, nav>>

\* Dashboard.Update on the message a command in flight resolves to
DashDispatch(d, m, ok) ==
    CASE m.type = "PodActionMenuResult" -> DashPodActionMenuResult(d, m.item, ok)
      [] m.type = "ActionMenuResult" -> DashActionMenuResult(d, m)
      [] m.type = "ConfirmResult" -> DashConfirmResult(d, m)
      [] m.type = "DescribeOutputMsg" -> DashDescribeOutput(d, m.title, ~ok)
      [] m.type = "ExecProcess" -> DashExecFinished(d, ~ok)
      [] OTHER -> DashOther(d)

DashKeyPress ==
    \E k \in DashKeys, clipOk \in BOOLEAN :
        /\ clipOk \/ dash.actionMenu.visible
        /\ DashApply(KeyMsg(k), DashKey(dash, k, clipOk), inflight)

DashDeliver ==
    \E m \in BagToSet(inflight), ok \in BOOLEAN :
        /\ ok \/ m.type \in {"DescribeOutputMsg", "ExecProcess"}
              \/ (m.type = "PodActionMenuResult" /\ m.item.action = "copy")
        /\ DashApply(m @@ [ok |-> ok],
                     DashDispatch(dash, m, ok), inflight (-) SetToBag({m}))

DashNext ==
    \/ DashKeyPress
    \/ DashDeliver

SpecDash == DashInit /\ [][DashNext]_vars

\* ---- the preferences ------------------------------------------------------
FavoriteNames == {"default/web", "default/db", "kube-system/dns", "default/job"}

ConfigCall(c, what) ==
    /\ app' = [app EXCEPT !.config = c]
    /\ last' = [msg |-> what, cmds |-> NoCmds, to |-> {"Config"}]
    /\ UNCHANGED <<nav, dash, inflight>>

ConfigAddFavorite ==
    \E item \in FavoriteNames :
        ConfigCall(AddFavorite(app.config, item), [type |-> "AddFavorite", item |-> item])

ConfigRemoveFavorite ==
    \E item \in FavoriteNames :
        ConfigCall(RemoveFavorite(app.config, item), [type |-> "RemoveFavorite", item |-> item])

ConfigNext ==
    \/ ConfigAddFavorite
    \/ ConfigRemoveFavorite

SpecConfig == NavInit /\ [][ConfigNext]_vars

\* the Dashboard driven through its panel keys; the copy menu is what leaves
\* a status message behind
PanelKeys == {"tab", "shift+tab", "1", "2", "3", "4", "v", "y", "?"}

PanelKeyPress ==
    \E k \in PanelKeys, clipOk \in BOOLEAN :
        /\ clipOk \/ dash.actionMenu.visible
        /\ DashApply(KeyMsg(k), DashKey(dash, k, clipOk), inflight)

PanelNext ==
    \/ PanelKeyPress
    \/ DashDeliver

SpecPanels == DashInit /\ [][PanelNext]_vars


(***************************************************************************)
(* The Root Controller (package app, src/CONTRIBUTING.md)                  *)
(***************************************************************************)
RootStep(a, n, d, cmds, to) == [a |-> a, n |-> n, d |-> d, cmds |-> cmds, to |-> to]

\* the commands of the Root Controller, named by the message they resolve to
\* and carrying what the command reads when it runs; a dashboard-data fetch
\* also carries whether a tick issued it

\* a reload that lists the namespace and resource type of the saved preferences
LoadWorkloadsCmdOfPreferences(a, n) ==
    [type |-> "loadedMsg", namespace |-> LoadedConfig.LastNamespace,
     resourceType |-> LoadedConfig.LastResourceType]

\* Model.loadWorkloads
LoadWorkloadsCmd(a, n) ==
    [type |-> "loadedMsg", namespace |-> a.namespace, resourceType |-> n.resourceType]
LoadPodsCmd(workload) == [type |-> "podsLoadedMsg", workload |-> workload.id]
LoadDashboardDataCmd(pod, byTick) ==
    [type |-> "dashboardDataMsg", pod |-> pod.id, byTick |-> byTick]
TickCmd == [type |-> "tickMsg"]
QuitCmd == [type |-> "Quit"]

RootMsgTypes == {"loadedMsg", "podsLoadedMsg", "dashboardDataMsg", "tickMsg", "Quit"}

\* a Back that always lands on the workload list and reloads it
handleBackToWorkloads(a, n, d) ==
    IF a.view = "Dashboard" \/ n.mode # "Workloads"
    THEN RootStep([a EXCEPT !.view = "Navigator", !.pod = NoItem, !.workload = NoItem],
                  SetMode(n, "Workloads"), d, {LoadWorkloadsCmd(a, n)}, {"Root"})
    ELSE RootStep(a, n, d, NoCmds, {"Root"})

\* a Root Controller that leaves the Dashboard's pod selected on Back
handleBackKeepsPod(a, n, d) ==
    IF a.view = "Dashboard"
    THEN RootStep([a EXCEPT !.view = "Navigator"],
                  SetMode(n, IF a.workload # NoItem THEN "Pods" ELSE "Workloads"),
                  d, NoCmds, {"Root"})
    ELSE CASE n.mode = "Pods" ->
                RootStep([a EXCEPT !.workload = NoItem], SetMode(n, "Workloads"), d,
                         {LoadWorkloadsCmd(a, n)}, {"Root"})
           [] n.mode \in {"Namespace", "ResourceType"} ->
                RootStep(a, SetMode(n, "Workloads"), d, NoCmds, {"Root"})
           [] OTHER -> RootStep(a, n, d, NoCmds, {"Root"})

\* Model.handleBack
handleBack(a, n, d) ==
    IF a.view = "Dashboard"
    THEN RootStep([a EXCEPT !.view = "Navigator", !.pod = NoItem],
                  SetMode(n, IF a.workload # NoItem THEN "Pods" ELSE "Workloads"),
                  d, NoCmds, {"Root"})
    ELSE CASE n.mode = "Pods" ->
                RootStep([a EXCEPT !.workload = NoItem], SetMode(n, "Workloads"), d,
                         {LoadWorkloadsCmd(a, n)}, {"Root"})
           [] n.mode \in {"Namespace", "ResourceType"} ->
                RootStep(a, SetMode(n, "Workloads"), d, NoCmds, {"Root"})
           [] OTHER -> RootStep(a, n, d, NoCmds, {"Root"})

\* Model.handleEnter; in Pods mode the breadcrumb reads m.workload.Name, which
\* panics when no workload is selected
handleEnter(a, n, d) ==
    IF a.view # "Navigator" THEN RootStep(a, n, d, NoCmds, {"Root"})
    ELSE CASE n.mode = "Workloads" ->
                IF SelectedWorkload(n) # NoItem
                THEN RootStep([a EXCEPT !.workload = SelectedWorkload(n), !.loading = TRUE],
                              n, d, {LoadPodsCmd(SelectedWorkload(n))}, {"Root"})
                ELSE RootStep(a, n, d, NoCmds, {"Root"})
           [] n.mode = "Pods" ->
                IF SelectedPod(n) = NoItem
                THEN RootStep(a, n, d, NoCmds, {"Root"})
                ELSE IF a.workload = NoItem
                THEN RootStep([a EXCEPT !.exit = "panic"], n, d, NoCmds, {"Root"})
                ELSE RootStep([a EXCEPT !.pod = SelectedPod(n), !.view = "Dashboard",
                                        !.loading = TRUE],
                              n, DashSetPod(d, SelectedPod(n)),
                              {LoadDashboardDataCmd(SelectedPod(n), FALSE), TickCmd}, {"Root"})
           [] n.mode = "Namespace" ->
                IF SelectedNamespace(n) # <<>>
                THEN LET b == [a EXCEPT !.namespace = SelectedNamespace(n),
                                        !.config.LastNamespace = SelectedNamespace(n),
                                        !.loading = TRUE]
                     IN  RootStep(b, SetMode(n, "Workloads"), d,
                                  {LoadWorkloadsCmd(b, n)}, {"Root"})
                ELSE RootStep(a, n, d, NoCmds, {"Root"})
           [] n.mode = "ResourceType" ->
                LET m == SetResourceType(n, SelectedResourceType(n))
                IN  RootStep([a EXCEPT !.config.LastResourceType = SelectedResourceType(n),
                                       !.loading = TRUE],
                             SetMode(m, "Workloads"), d, {LoadWorkloadsCmd(a, m)}, {"Root"})

\* Model.refresh
refresh(a, n, d) ==
    IF a.view = "Navigator"
    THEN RootStep([a EXCEPT !.loading = TRUE], n, d, {LoadWorkloadsCmd(a, n)}, {"Root"})
    ELSE IF a.pod # NoItem
    THEN RootStep([a EXCEPT !.loading = TRUE], n, d, {LoadDashboardDataCmd(a.pod, FALSE)}, {"Root"})
    ELSE RootStep(a, n, d, NoCmds, {"Root"})

\* a saveConfig that writes nothing
saveConfigSkipped(a) == a

\* Model.saveConfig: config.Save writes the preferences file; its error is
\* discarded, and saved is what was handed to it last
saveConfig(a) == [a EXCEPT !.saved = a.config]

\* Model.Update, the switch on m.view that ends it (248-267)
RootViewKey(a, n, d, k, clipOk) ==
    IF a.view = "Navigator"
    THEN IF ~n.searching /\ KeyMatches(k, KeyResourceType)
         THEN RootStep(a, SetMode(n, "ResourceType"), d, NoCmds, {"Root"})
         ELSE RootStep(a, NavUpdateKey(n, k), d, NoCmds, {"Navigator"})
    ELSE LET r == DashKey(d, k, clipOk)
         IN  RootStep(a, n, r.d, r.cmds, r.to)

\* a Root Controller that matches its global keys while the filter has focus
RootKeyGlobalFirst(a, n, d, k, clipOk) ==
    IF a.help
    THEN RootStep(IF k \in {"?", "esc"} THEN [a EXCEPT !.help = FALSE] ELSE a,
                  n, d, NoCmds, {"RootHelp"})
    ELSE CASE KeyMatches(k, KeyQuit) ->
                RootStep([saveConfig(a) EXCEPT !.exit = "quit"], n, d, {QuitCmd}, {"Root"})
           [] KeyMatches(k, KeyHelp) ->
                RootStep([a EXCEPT !.help = ~a.help], n, d, NoCmds, {"Root"})
           [] KeyMatches(k, KeyRefresh) -> refresh(a, n, d)
           [] a.view = "Navigator" /\ n.searching /\ k \in {"esc", "enter"} ->
                RootStep(a, CloseSearch(n), d, NoCmds, {"Root"})
           [] a.view = "Navigator" /\ n.searching ->
                RootStep(a, NavUpdateKey(n, k), d, NoCmds, {"Navigator"})
           [] KeyMatches(k, KeyNamespace) /\ a.view = "Navigator" ->
                RootStep(a, SetMode(n, "Namespace"), d, NoCmds, {"Root"})
           [] KeyMatches(k, KeyBack) -> handleBack(a, n, d)
           [] KeyMatches(k, KeyEnter) -> handleEnter(a, n, d)
           [] OTHER -> RootViewKey(a, n, d, k, clipOk)

\* a Root Controller that lets a Dashboard overlay see the key first
RootKeyOverlayFirst(a, n, d, k, clipOk) ==
    IF a.help
    THEN RootStep(IF k \in {"?", "esc"} THEN [a EXCEPT !.help = FALSE] ELSE a,
                  n, d, NoCmds, {"RootHelp"})
    ELSE IF a.view = "Navigator" /\ n.searching
    THEN CASE k \in {"esc", "enter"} -> RootStep(a, CloseSearch(n), d, NoCmds, {"Root"})
           [] k = "ctrl+c" -> RootStep([saveConfig(a) EXCEPT !.exit = "quit"], n, d, {QuitCmd}, {"Root"})
           [] OTHER -> RootStep(a, NavUpdateKey(n, k), d, NoCmds, {"Navigator"})
    ELSE CASE a.view = "Dashboard" /\ HasActiveOverlay(d) ->
                RootViewKey(a, n, d, k, clipOk)
           [] KeyMatches(k, KeyQuit) ->
                RootStep([saveConfig(a) EXCEPT !.exit = "quit"], n, d, {QuitCmd}, {"Root"})
           [] KeyMatches(k, KeyHelp) ->
                RootStep([a EXCEPT !.help = ~a.help], n, d, NoCmds, {"Root"})
           [] KeyMatches(k, KeyRefresh) -> refresh(a, n, d)
           [] KeyMatches(k, KeyNamespace) /\ a.view = "Navigator" ->
                RootStep(a, SetMode(n, "Namespace"), d, NoCmds, {"Root"})
           [] KeyMatches(k, KeyBack) -> handleBack(a, n, d)
           [] KeyMatches(k, KeyEnter) -> handleEnter(a, n, d)
           [] OTHER -> RootViewKey(a, n, d, k, clipOk)
\* a Root Controller whose quit keys work through the help overlay
RootKeyQuitThroughHelp(a, n, d, k, clipOk) ==
    IF a.help /\ ~KeyMatches(k, KeyQuit)
    THEN RootStep(IF k \in {"?", "esc"} THEN [a EXCEPT !.help = FALSE] ELSE a,
                  n, d, NoCmds, {"RootHelp"})
    ELSE IF a.view = "Navigator" /\ n.searching
    THEN CASE k \in {"esc", "enter"} -> RootStep(a, CloseSearch(n), d, NoCmds, {"Root"})
           [] k = "ctrl+c" -> RootStep([saveConfig(a) EXCEPT !.exit = "quit"], n, d, {QuitCmd}, {"Root"})
           [] OTHER -> RootStep(a, NavUpdateKey(n, k), d, NoCmds, {"Navigator"})
    ELSE CASE KeyMatches(k, KeyQuit) ->
                RootStep([saveConfig(a) EXCEPT !.exit = "quit"], n, d, {QuitCmd}, {"Root"})
           [] KeyMatches(k, KeyHelp) ->
                RootStep([a EXCEPT !.help = ~a.help], n, d, NoCmds, {"Root"})
           [] KeyMatches(k, KeyRefresh) -> refresh(a, n, d)
           [] KeyMatches(k, KeyNamespace) /\ a.view = "Navigator" ->
                RootStep(a, SetMode(n, "Namespace"), d, NoCmds, {"Root"})
           [] KeyMatches(k, KeyBack) -> handleBack(a, n, d)
           [] KeyMatches(k, KeyEnter) -> handleEnter(a, n, d)
           [] OTHER -> RootViewKey(a, n, d, k, clipOk)

\* Model.Update on a tea.KeyMsg (191-267)
RootKey(a, n, d, k, clipOk) ==
    IF a.help
    THEN RootStep(IF k \in {"?", "esc"} THEN [a EXCEPT !.help = FALSE] ELSE a,
                  n, d, NoCmds, {"RootHelp"})
    ELSE IF a.view = "Navigator" /\ n.searching
    THEN CASE k \in {"esc", "enter"} -> RootStep(a, CloseSearch(n), d, NoCmds, {"Root"})
           [] k = "ctrl+c" -> RootStep([saveConfig(a) EXCEPT !.exit = "quit"], n, d, {QuitCmd}, {"Root"})
           [] OTHER -> RootStep(a, NavUpdateKey(n, k), d, NoCmds, {"Navigator"})
    ELSE CASE KeyMatches(k, KeyQuit) ->
                RootStep([saveConfig(a) EXCEPT !.exit = "quit"], n, d, {QuitCmd}, {"Root"})
           [] KeyMatches(k, KeyHelp) ->
                RootStep([a EXCEPT !.help = ~a.help], n, d, NoCmds, {"Root"})
           [] KeyMatches(k, KeyRefresh) -> refresh(a, n, d)
           [] KeyMatches(k, KeyNamespace) /\ a.view = "Navigator" ->
                RootStep(a, SetMode(n, "Namespace"), d, NoCmds, {"Root"})
           [] KeyMatches(k, KeyBack) -> handleBack(a, n, d)
           [] KeyMatches(k, KeyEnter) -> handleEnter(a, n, d)
           [] OTHER -> RootViewKey(a, n, d, k, clipOk)

\* Model.Update on loadedMsg (153-161)
\* a Root Controller that goes on showing the spinner after a failed load
RootLoadedErrorKeepsLoading(a, n, d, err, workloads, namespaces) ==
    IF err
    THEN RootStep([a EXCEPT !.err = TRUE], n, d, NoCmds, {"Root"})
    ELSE RootStep([a EXCEPT !.loading = FALSE],
                  SetNamespaces(SetWorkloads(n, workloads), namespaces),
                  d, NoCmds, {"Root"})

RootLoaded(a, n, d, err, workloads, namespaces) ==
    IF err
    THEN RootStep([a EXCEPT !.loading = FALSE, !.err = TRUE], n, d, NoCmds, {"Root"})
    ELSE RootStep([a EXCEPT !.loading = FALSE],
                  SetNamespaces(SetWorkloads(n, workloads), namespaces),
                  d, NoCmds, {"Root"})

\* a Root Controller that installs the pods and leaves the mode alone
RootPodsLoadedNoSwitch(a, n, d, err, pods) ==
    IF err
    THEN RootStep([a EXCEPT !.loading = FALSE, !.err = TRUE], n, d, NoCmds, {"Root"})
    ELSE RootStep([a EXCEPT !.loading = FALSE], SetPods(n, pods), d, NoCmds, {"Root"})

\* Model.Update on podsLoadedMsg (163-171)
RootPodsLoaded(a, n, d, err, pods) ==
    IF err
    THEN RootStep([a EXCEPT !.loading = FALSE, !.err = TRUE], n, d, NoCmds, {"Root"})
    ELSE RootStep([a EXCEPT !.loading = FALSE], SetMode(SetPods(n, pods), "Pods"),
                  d, NoCmds, {"Root"})

\* a Root Controller that leaves the events of the previous payload in place
RootDashboardDataKeepEvents(a, n, d, data) ==
    RootStep([a EXCEPT !.loading = FALSE], n,
             DashSetHelpers(
                 DashSetRelated(DashSetMetrics(DashSetLogs(d, data.logs), data.metrics),
                                data.related),
                 data.helpers),
             NoCmds, {"Root"})

\* Model.Update on dashboardDataMsg (173-180)
RootDashboardData(a, n, d, data) ==
    RootStep([a EXCEPT !.loading = FALSE], n, DashSetData(d, data), NoCmds, {"Root"})

\* Model.Update on tickMsg (182-189)
RootTick(a, n, d) ==
    IF a.view = "Dashboard" /\ a.pod # NoItem
    THEN RootStep(a, n, d, {LoadDashboardDataCmd(a.pod, TRUE), TickCmd}, {"Root"})
    ELSE RootStep(a, n, d, {TickCmd}, {"Root"})

\* Model.Update on any other message: the switch on m.view hands it to the
\* Navigator, which ignores it, or to the Dashboard (248-267)
RootOther(a, n, d, m, ok) ==
    IF a.view = "Navigator"
    THEN RootStep(a, n, d, NoCmds, {"Navigator"})
    ELSE LET r == DashDispatch(d, m, ok)
         IN  RootStep(a, n, r.d, r.cmds, r.to)

\* Model.View: what fills the screen
View(a) ==
    IF a.err THEN "Error"
    ELSE IF a.loading THEN "Loading"
    ELSE IF a.help THEN "Help"
    ELSE a.view

\* ---- the program ---------------------------------------------------------
\* the keys pressed in each view when the program is driven through its
\* navigation, and when it is driven through the pod actions
NavigatorViewKeys == {"n", "t", "esc", "enter", "/", "q", "?", "r", "down"}
SearchKeys == {"n", "t", "esc", "enter", "q", "?", "r", "ctrl+c"}
HelpKeys == {"?", "esc", "q"}
NavigationKeys(a, n) ==
    IF a.help THEN HelpKeys
    ELSE IF a.view = "Dashboard" THEN {"esc", "r"}
    ELSE IF n.searching THEN SearchKeys ELSE NavigatorViewKeys

DashboardViewKeys == {"x", "1", "5", "y", "n", "esc", "enter", "r", "q", "?"}
PodActionKeys(a, n) ==
    IF a.view = "Dashboard" THEN DashboardViewKeys ELSE {"enter", "esc", "down"}

\* the cluster the loads read
ClusterWorkloads == [i \in 1..MaxItems |-> WorkloadAt(i)]
ClusterPods == [i \in 1..MaxItems |-> PodAt(i)]
ClusterNamespaces == [i \in 1..MaxItems |-> NamespaceAt(i)]

Loads(bag) == {m \in BagToSet(bag) : m.type \in RootMsgTypes}

Count(bag, S) == BagCardinality([m \in S |-> bag[m]])

\* Model.Init: the initial load is in flight
Init ==
    /\ app = InitApp
    /\ nav = NewNavigator
    /\ dash = NewDashboard
    /\ inflight = SetToBag({LoadWorkloadsCmd(InitApp, NewNavigator)})
    /\ last = NoLast

Apply(msg, r, rest) ==
    /\ LET after == Issue(rest, r.cmds \ {QuitCmd})
       IN  /\ Count(after, Loads(after)) <= MaxLoads
           /\ Count(after, BagToSet(after) \ Loads(after)) <= MaxInFlight
           /\ inflight' = after
    /\ app' = r.a
    /\ nav' = r.n
    /\ dash' = r.d
    /\ last' = [msg |-> msg, cmds |-> r.cmds, to |-> r.to]

Press(k, clipOk) ==
    /\ app.exit = "running"
    /\ clipOk \/ (app.view = "Dashboard" /\ dash.actionMenu.visible)
    /\ app.view = "Navigator" /\ nav.searching /\ k \in PrintableKeys
           => Len(nav.searchInput) < MaxQueryLen
    /\ k = "down" => nav.cursor + 1 < MaxItems
    /\ Apply(KeyMsg(k), RootKey(app, nav, dash, k, clipOk), inflight)

KeyPress == \E k \in NavigationKeys(app, nav) : Press(k, TRUE)

PodActionKeyPress == \E k \in PodActionKeys(app, nav), clipOk \in BOOLEAN : Press(k, clipOk)

Pending(type) == {m \in BagToSet(inflight) : m.type = type}

\* the fields of a dashboardDataMsg that a cluster call fills, and all five
FetchedFields == {"logs", "events", "metrics", "related"}
DataFields == FetchedFields \cup {"helpers"}

\* k8s.AnalyzePodIssues (utils.go 71-): the helpers follow from the pod and
\* the events handed in
AnalyzePodIssues(pod, events) == [pod |-> pod, version |-> events.version]

\* the message of Model.loadDashboardData (475-492): a cluster call that
\* fails leaves its field nil, the error is dropped
DashboardData(pod, version, missing) ==
    LET got(f) == IF f \in missing THEN Nil ELSE Fetched(pod, version)
    IN  [logs |-> got("logs"), events |-> got("events"), metrics |-> got("metrics"),
         related |-> got("related"), helpers |-> AnalyzePodIssues(pod, got("events"))]

DeliverLoaded ==
    \E m \in Pending("loadedMsg"), err \in BOOLEAN,
       w \in {ClusterWorkloads}, ns \in {ClusterNamespaces} :
        /\ app.exit = "running"
        /\ Apply(m @@ [err |-> err], RootLoaded(app, nav, dash, err, w, ns),
                 inflight (-) SetToBag({m}))

DeliverPods ==
    \E m \in Pending("podsLoadedMsg"), err \in BOOLEAN, pods \in {ClusterPods} :
        /\ app.exit = "running"
        /\ Apply(m @@ [err |-> err], RootPodsLoaded(app, nav, dash, err, pods),
                 inflight (-) SetToBag({m}))

DeliverDashboardData ==
    \E m \in Pending("dashboardDataMsg") :
        /\ app.exit = "running"
        /\ LET data == DashboardData(m.pod, 1, {})
           IN  Apply(m @@ data, RootDashboardData(app, nav, dash, data),
                     inflight (-) SetToBag({m}))

Tick ==
    /\ app.exit = "running"
    /\ TickCmd \in BagToSet(inflight)
    /\ Apply(TickCmd, RootTick(app, nav, dash), inflight (-) SetToBag({TickCmd}))

Deliver ==
    \E m \in BagToSet(inflight) \ Loads(inflight), ok \in BOOLEAN :
        /\ app.exit = "running"
        /\ ok \/ m.type \in {"DescribeOutputMsg", "ExecProcess"}
              \/ (m.type = "PodActionMenuResult" /\ m.item.action = "copy")
        /\ Apply(m @@ [ok |-> ok], RootOther(app, nav, dash, m, ok),
                 inflight (-) SetToBag({m}))

\* the program driven through its navigation
Next ==
    \/ KeyPress
    \/ DeliverLoaded
    \/ DeliverPods
    \/ DeliverDashboardData
    \/ Tick

Spec == Init /\ [][Next]_vars

\* the program driven through the pod actions of the Dashboard
PodActionNext ==
    \/ PodActionKeyPress
    \/ DeliverLoaded
    \/ DeliverPods
    \/ DeliverDashboardData
    \/ Tick
    \/ Deliver

SpecPodActions == Init /\ [][PodActionNext]_vars

\* the program driven to a pod's Dashboard and through the actions that can
\* fail: exec, describe, the copy of the pod-action menu and of the action menu
FailureKeys(a) ==
    IF a.view = "Dashboard" THEN {"x", "y", "1", "2", "5", "6", "esc"} ELSE {"enter"}

FailureKeyPress == \E k \in FailureKeys(app), clipOk \in BOOLEAN : Press(k, clipOk)

FailureNext ==
    \/ FailureKeyPress
    \/ DeliverLoaded
    \/ DeliverPods
    \/ DeliverDashboardData
    \/ Tick
    \/ Deliver

SpecFailures == Init /\ [][FailureNext]_vars

\* the program with its help overlay: the overlay is opened in the Navigator
\* and in the Dashboard, and every kind of key is pressed while it is shown
HelpShownKeys == {"?", "esc", "q", "ctrl+c", "r", "enter", "n", "t", "/", "down", "x"}

HelpKeyPress ==
    \E k \in (IF app.help THEN HelpShownKeys ELSE {"?", "enter", "esc"}) : Press(k, TRUE)

HelpNext ==
    \/ HelpKeyPress
    \/ DeliverLoaded
    \/ DeliverPods
    \/ DeliverDashboardData
    \/ Tick

SpecHelp == Init /\ [][HelpNext]_vars

\* ---- the program driven in and out of the Dashboard -----------------------
\* Model.Update on the message a command of the Root Controller resolves to
RootUpdate(a, n, d, m, err) ==
    CASE m.type = "loadedMsg" ->
            RootLoaded(a, n, d, err, ClusterWorkloads, ClusterNamespaces)
      [] m.type = "podsLoadedMsg" -> RootPodsLoaded(a, n, d, err, ClusterPods)
      [] m.type = "dashboardDataMsg" -> RootDashboardData(a, n, d, m)
      [] m.type = "tickMsg" -> RootTick(a, n, d)

VisitKeys == {"enter", "esc"}

VisitApply(msg, r, rest) ==
    /\ BagCardinality(Issue(rest, r.cmds)) <= MaxPending
    /\ inflight' = Issue(rest, r.cmds)
    /\ app' = r.a
    /\ nav' = r.n
    /\ dash' = r.d
    /\ last' = [msg |-> msg, cmds |-> r.cmds, to |-> r.to]

VisitKeyPress ==
    \E k \in VisitKeys :
        /\ app.exit = "running"
        /\ VisitApply(KeyMsg(k), RootKey(app, nav, dash, k, TRUE), inflight)

\* the message a command in flight resolves to: a dashboard-data fetch brings
\* what the cluster answers
Resolve(m, version, missing) ==
    IF m.type = "dashboardDataMsg"
    THEN m @@ DashboardData(m.pod, version, missing) ELSE m

VisitDeliver ==
    \E m \in BagToSet(inflight), err \in BOOLEAN :
        /\ app.exit = "running"
        /\ err => m.type \in {"loadedMsg", "podsLoadedMsg"}
        /\ LET msg == Resolve(m, 1, {})
           IN  VisitApply(msg @@ [err |-> err], RootUpdate(app, nav, dash, msg, err),
                          inflight (-) SetToBag({m}))

VisitNext ==
    \/ VisitKeyPress
    \/ VisitDeliver

SpecVisits == Init /\ [][VisitNext]_vars

(***************************************************************************)
(* Pods visited while the cluster's answers change and fail in part: each  *)
(* dashboard-data fetch resolves to one of MaxVersions answers with any    *)
(* subset of its cluster calls failed.                                     *)
(***************************************************************************)
PayloadDeliver ==
    \E m \in BagToSet(inflight), err \in BOOLEAN,
       version \in 1..MaxVersions, missing \in SUBSET FetchedFields :
        /\ app.exit = "running"
        /\ err => m.type \in {"loadedMsg", "podsLoadedMsg"}
        /\ m.type # "dashboardDataMsg" => version = 1 /\ missing = {}
        /\ LET msg == Resolve(m, version, missing)
           IN  VisitApply(msg @@ [err |-> err], RootUpdate(app, nav, dash, msg, err),
                          inflight (-) SetToBag({m}))

PayloadNext ==
    \/ VisitKeyPress
    \/ PayloadDeliver

SpecPayloads == Init /\ [][PayloadNext]_vars

(***************************************************************************)
(* The program under fair delivery: Enter, Back and refresh, and every     *)
(* load in flight is eventually answered (the command's function returns   *)
(* one message on each of its paths, and Bubble Tea hands it to Update);   *)
(* the timer's ticks are delivered too but nothing is assumed about them.  *)
(***************************************************************************)
LiveKeys == {"enter", "esc", "r"}

LiveKeyPress ==
    \E k \in LiveKeys :
        /\ app.exit = "running"
        /\ VisitApply(KeyMsg(k), RootKey(app, nav, dash, k, TRUE), inflight)

LiveDeliverLoad ==
    \E m \in Loads(inflight) \ {TickCmd}, err \in BOOLEAN :
        /\ app.exit = "running"
        /\ err => m.type \in {"loadedMsg", "podsLoadedMsg"}
        /\ LET msg == Resolve(m, 1, {})
           IN  VisitApply(msg @@ [err |-> err], RootUpdate(app, nav, dash, msg, err),
                          inflight (-) SetToBag({m}))

LiveTick ==
    /\ app.exit = "running"
    /\ TickCmd \in BagToSet(inflight)
    /\ VisitApply(TickCmd, RootTick(app, nav, dash), inflight (-) SetToBag({TickCmd}))

LiveNext ==
    \/ LiveKeyPress
    \/ LiveDeliverLoad
    \/ LiveTick

SpecLive == Init /\ [][LiveNext]_vars /\ WF_vars(LiveDeliverLoad)

\* Model.Update on tea.WindowSizeMsg (140-147): the Navigator gets the
\* terminal height less the two footer rows
RootWindowSize(a, n, d, height) ==
    RootStep(a, SetSize(n, height - 2), d, NoCmds, {"Root"})

\* ---- the windowed rendering of the Navigator -----------------------------
TerminalHeights == {6, 12, 20, 22}

WindowKeys == {"down", "up", "pgdown", "pgup", "G", "g"}

WindowResize ==
    \E h \in TerminalHeights :
        LET r == RootWindowSize(app, nav, dash, h)
        IN  /\ nav' = r.n
            /\ last' = [msg |-> [type |-> "WindowSizeMsg", height |-> h],
                        cmds |-> r.cmds, to |-> r.to]
            /\ UNCHANGED <<app, dash, inflight>>

WindowSetWorkloads ==
    \E t \in {u \in 0..MaxTotal : u % 10 = 0} :
        NavCall(SetWorkloads(nav, [i \in 1..t |-> WorkloadAt(i)]), [type |-> "SetWorkloads"])

WindowKey == \E k \in WindowKeys : NavCall(NavUpdateKey(nav, k), KeyMsg(k))

WindowNext ==
    \/ WindowResize
    \/ WindowSetWorkloads
    \/ WindowKey

SpecWindow == NavInit /\ [][WindowNext]_vars

(***************************************************************************)
(* Properties                                                              *)
(***************************************************************************)
\* the overlay Dashboard.Update asks first, by the order of the data model:
\* Confirm > ResultViewer > PodActionMenu > ActionMenu > Help
OverlayOrder == <<"ConfirmDialog", "ResultViewer", "PodActionMenu", "ActionMenu", "Help">>

OverlayVisible(d, o) ==
    CASE o = "ConfirmDialog" -> d.confirmDialog.visible
      [] o = "ResultViewer" -> d.resultViewer.visible
      [] o = "PodActionMenu" -> d.podActionMenu.visible
      [] o = "ActionMenu" -> d.actionMenu.visible
      [] o = "Help" -> d.help

OverlayState(d, o) ==
    CASE o = "ConfirmDialog" -> d.confirmDialog
      [] o = "ResultViewer" -> d.resultViewer
      [] o = "PodActionMenu" -> d.podActionMenu
      [] o = "ActionMenu" -> d.actionMenu
      [] o = "Help" -> d.help

FirstVisible(d) ==
    OverlayOrder[CHOOSE i \in 1..5 :
        /\ OverlayVisible(d, OverlayOrder[i])
        /\ \A j \in 1..(i - 1) : ~OverlayVisible(d, OverlayOrder[j])]

Destructive == {"delete", "exec", "port-forward"}

Executes(c) == c.type \in {"DeletePodRequest", "ExecProcess"}

\* C1: the step that handles the menu selection of delete, exec or
\* port-forward returns no command and only shows the ConfirmDialog (recording
\* the PendingAction for exec and port-forward); a delete request is returned
\* only by a step handling a confirming ConfirmResult for delete, a process
\* launch only by a step handling a confirming ConfirmResult for exec or
\* port-forward.
C1_ConfirmBeforeExecute ==
    [][ /\ (last'.msg.type = "PodActionMenuResult" /\ last'.msg.item.action \in Destructive) =>
            /\ last'.cmds = NoCmds
            /\ dash'.confirmDialog.visible
            /\ dash'.confirmDialog.action = last'.msg.item.action
            /\ dash' = [dash EXCEPT
                   !.confirmDialog = dash'.confirmDialog,
                   !.pendingAction = IF last'.msg.item.action = "delete"
                                     THEN @ ELSE last'.msg.item]
        /\ \A c \in last'.cmds : Executes(c) =>
            /\ last'.msg.type = "ConfirmResult"
            /\ last'.msg.confirmed
            /\ c.type = "DeletePodRequest" => last'.msg.action = "delete"
            /\ c.type = "ExecProcess" => last'.msg.action \in {"exec", "port-forward"}
      ]_vars

C1_Witness ==
    /\ last.msg.type = "ConfirmResult"
    /\ last.msg.confirmed
    /\ last.msg.action = "delete"
    /\ \E c \in last.cmds : c.type = "DeletePodRequest"

\* C3: handling a ConfirmResult with confirmed = FALSE returns no command,
\* leaves PendingAction empty and changes no other field of the Dashboard.
C3_CancelHasNoEffect ==
    [][ (last'.msg.type = "ConfirmResult" /\ ~last'.msg.confirmed) =>
            /\ last'.cmds = NoCmds
            /\ dash'.pendingAction = NoAction
            /\ dash' = [dash EXCEPT !.pendingAction = NoAction]
            /\ BagCardinality(inflight') = BagCardinality(inflight) - 1
      ]_vars

C3_Witness ==
    /\ last.msg.type = "ConfirmResult"
    /\ ~last.msg.confirmed
    /\ last.msg.action = "exec"
    /\ dash.pendingAction = NoAction
    /\ dash.podActionMenu.items # <<>>

\* C4: a key handled while an overlay is visible is delivered to the first
\* visible overlay of the order Confirm > ResultViewer > PodActionMenu >
\* ActionMenu > Help and to nothing else: every other overlay, the panels, the
\* focus, the fullscreen flag and the status line are unchanged.
C4_OverlayPriority ==
    [][ (last'.msg.type = "KeyMsg" /\ HasActiveOverlay(dash)) =>
            /\ last'.to = {FirstVisible(dash)}
            /\ \A o \in Range(OverlayOrder) \ {FirstVisible(dash)} :
                   OverlayState(dash', o) = OverlayState(dash, o)
            /\ dash'.focus = dash.focus
            /\ dash'.fullscreen = dash.fullscreen
            /\ dash'.statusMsg = dash.statusMsg
            /\ dash'.following = dash.following
            /\ dash'.showAll = dash.showAll
            /\ dash'.showFull = dash.showFull
            /\ dash'.pod = dash.pod
            /\ dash'.pendingAction = dash.pendingAction
      ]_vars

C4_Witness ==
    /\ last.msg.type = "KeyMsg"
    /\ last.to = {"ConfirmDialog"}
    /\ dash.actionMenu.visible
    /\ dash.confirmDialog.visible

\* C5: handling the menu selection of copy or describe performs the action in
\* that step (copy: a status notice of the copy and no command; describe: the
\* status "Loading describe..." and the describe command) and changes neither
\* the ConfirmDialog nor the PendingAction.
C5_ImmediateActions ==
    [][ (last'.msg.type = "PodActionMenuResult"
            /\ last'.msg.item.action \in {"copy", "describe"}) =>
            /\ dash'.confirmDialog = dash.confirmDialog
            /\ dash'.pendingAction = dash.pendingAction
            /\ last'.msg.item.action = "copy" =>
                /\ last'.cmds = NoCmds
                /\ dash'.statusMsg = IF last'.msg.ok
                                     THEN <<"Copied: ", last'.msg.item.label>>
                                     ELSE <<"Copy failed: ", "err">>
            /\ last'.msg.item.action = "describe" =>
                /\ dash'.statusMsg = <<"Loading describe...", "">>
                /\ \E c \in last'.cmds :
                       c.type = "DescribeOutputMsg" /\ c.command = last'.msg.item.command
                /\ Cardinality(last'.cmds) = 1
      ]_vars

C5_Witness ==
    /\ last.msg.type = "PodActionMenuResult"
    /\ last.msg.item.action = "copy"
    /\ dash.statusMsg = <<"Copied: ", "Copy logs command">>
    /\ ~dash.confirmDialog.visible

\* the text q occurs in one of the fields, letter case aside
MatchesFilter(fields, q) ==
    \E f \in fields : \E i \in 0..Len(f) :
        /\ i + Len(q) <= Len(f)
        /\ ToLower(SubSeq(f, i + 1, i + Len(q))) = ToLower(q)

WorkloadMatches(w, q) == MatchesFilter({w.name, w.status}, q)
PodMatches(p, q) == MatchesFilter({p.name, p.status, p.node}, q)
NamespaceMatches(ns, q) == MatchesFilter({ns}, q)

ItemAt(s, c, none) == IF c + 1 \in DOMAIN s THEN s[c + 1] ELSE none

\* C6: after any sequence of Navigator operations the cursor is in
\* [0, len(filtered collection of the current mode) - 1], or is 0 when that
\* collection is empty.
C6_CursorInRange ==
    IF maxItems(nav) = 0
    THEN nav.cursor = 0
    ELSE nav.cursor >= 0 /\ nav.cursor <= maxItems(nav) - 1

\* C8: with a non-empty active filter SelectedWorkload, SelectedPod and
\* SelectedNamespace return nothing or the item at position cursor of the
\* filtered collection, an item that matches the filter; with an empty filter
\* they return the item at position cursor of the raw collection.
C8_SelectedInFilter ==
    /\ nav.searchQuery # <<>> =>
        /\ SelectedWorkload(nav) = ItemAt(filteredWorkloads(nav), nav.cursor, NoItem)
        /\ SelectedWorkload(nav) # NoItem =>
               /\ SelectedWorkload(nav) \in Range(nav.workloads)
               /\ WorkloadMatches(SelectedWorkload(nav), nav.searchQuery)
        /\ SelectedPod(nav) = ItemAt(filteredPods(nav), nav.cursor, NoItem)
        /\ SelectedPod(nav) # NoItem =>
               /\ SelectedPod(nav) \in Range(nav.pods)
               /\ PodMatches(SelectedPod(nav), nav.searchQuery)
        /\ SelectedNamespace(nav) = ItemAt(filteredNamespaces(nav), nav.cursor, <<>>)
        /\ SelectedNamespace(nav) # <<>> =>
               /\ SelectedNamespace(nav) \in Range(nav.namespaces)
               /\ NamespaceMatches(SelectedNamespace(nav), nav.searchQuery)
    /\ nav.searchQuery = <<>> =>
        /\ SelectedWorkload(nav) = ItemAt(nav.workloads, nav.cursor, NoItem)
        /\ SelectedPod(nav) = ItemAt(nav.pods, nav.cursor, NoItem)
        /\ SelectedNamespace(nav) = ItemAt(nav.namespaces, nav.cursor, <<>>)

C8_Witness ==
    /\ nav.searchQuery # <<>>
    /\ ~nav.searching
    /\ SelectedWorkload(nav) # NoItem
    /\ SelectedWorkload(nav) # ItemAt(nav.workloads, nav.cursor, NoItem)

\* C10: a keystroke handled by the Navigator in search mode sets the active
\* filter to the input text (the old text with a typed character appended)
\* and the cursor to 0; the filtered workloads are then the workloads whose
\* name or status contains the filter text case-insensitively, in their
\* order (pods: name, status or node; namespaces: name).
C10_LiveFilter ==
    [][ (nav.searching /\ last'.msg.type = "KeyMsg") =>
            /\ nav'.searchQuery = nav'.searchInput
            /\ last'.msg.key \in PrintableKeys =>
                   nav'.searchQuery = Append(nav.searchInput, last'.msg.key)
            /\ nav'.cursor = 0
            /\ filteredWorkloads(nav') =
                   SelectSeq(nav'.workloads,
                             LAMBDA w : WorkloadMatches(w, nav'.searchQuery))
            /\ filteredPods(nav') =
                   SelectSeq(nav'.pods, LAMBDA p : PodMatches(p, nav'.searchQuery))
            /\ filteredNamespaces(nav') =
                   SelectSeq(nav'.namespaces,
                             LAMBDA ns : NamespaceMatches(ns, nav'.searchQuery))
      ]_vars

C10_Witness ==
    /\ nav.searching
    /\ last.msg = KeyMsg("r")
    /\ nav.mode = "Workloads"
    /\ nav.searchQuery = <<"r">>
    /\ nav.cursor = 0
    /\ Len(nav.workloads) = 2
    /\ filteredWorkloads(nav) = <<WorkloadAt(1)>>

DeleteRequests(cmds) == {c \in cmds : c.type = "DeletePodRequest"}

\* C2: in the Dashboard view the selection of "Delete Pod" shows the
\* ConfirmDialog for the selected pod; an Esc key press while that dialog is
\* visible hides it and has no other effect (no delete request, the view
\* stays the Dashboard, the pod stays selected); a confirming ConfirmResult
\* for delete returns exactly one delete request.
C2_EscCancelsDelete ==
    [][ /\ (app.view = "Dashboard" /\ last'.msg.type = "PodActionMenuResult"
               /\ last'.msg.item.action = "delete") =>
            /\ dash'.confirmDialog.visible
            /\ dash'.confirmDialog.data = app.pod.id
        /\ (app.view = "Dashboard" /\ ~app.help /\ dash.confirmDialog.visible
               /\ dash.confirmDialog.action = "delete" /\ last'.msg = KeyMsg("esc")) =>
            /\ ~dash'.confirmDialog.visible
            /\ DeleteRequests(last'.cmds) = {}
            /\ DeleteRequests(BagToSet(inflight')) \subseteq DeleteRequests(BagToSet(inflight))
            /\ app'.view = "Dashboard"
            /\ app'.pod = app.pod
        /\ (app.view = "Dashboard" /\ last'.msg.type = "ConfirmResult"
               /\ last'.msg.confirmed /\ last'.msg.action = "delete") =>
            Cardinality(DeleteRequests(last'.cmds)) = 1
      ]_vars

\* the steps that switch the Navigator mode: the namespace and resource-type
\* keys, an Enter that commits, Back, a pods result
SwitchesMode(a, n, msg) ==
    \/ msg.type = "podsLoadedMsg" /\ ~msg.err
    \/ /\ msg.type = "KeyMsg"
       /\ ~a.help
       /\ ~(a.view = "Navigator" /\ n.searching)
       /\ \/ msg.key \in {"n", "t"} /\ a.view = "Navigator"
          \/ msg.key = "esc" /\ (a.view = "Dashboard" \/ n.mode # "Workloads")
          \/ /\ msg.key = "enter" /\ a.view = "Navigator"
             /\ \/ n.mode = "ResourceType"
                \/ n.mode = "Namespace" /\ SelectedNamespace(n) # <<>>

\* C7: every step of the program that switches the Navigator mode (the
\* namespace and resource-type keys, an Enter that commits a namespace or a
\* resource type, Back, a pods result) and every step that changes the mode
\* ends with the cursor at 0, an empty active filter and search mode off.
C7_ModeSwitchResets ==
    [][ (nav'.mode # nav.mode \/ SwitchesMode(app, nav, last'.msg)) =>
            /\ nav'.cursor = 0
            /\ nav'.searchQuery = <<>>
            /\ ~nav'.searching
      ]_vars

C7_Witness ==
    /\ last.msg.type = "podsLoadedMsg"
    /\ ~last.msg.err
    /\ nav.mode = "Pods"
    /\ nav.pods # <<>>
    /\ nav.cursor = 0
    /\ nav.searchQuery = <<>>
    /\ nav.searchInput = <<>>

\* what the filter input does with a key that reaches it
ReachesFilter(k) ==
    /\ last'.to = {"Navigator"}
    /\ last'.cmds = NoCmds
    /\ app' = app
    /\ dash' = dash
    /\ nav' = [nav EXCEPT !.searchInput = TextInputUpdate(nav.searchInput, k),
                          !.searchQuery = TextInputUpdate(nav.searchInput, k),
                          !.cursor = 0]

LeavesSearch ==
    /\ ~nav'.searching
    /\ nav'.searchQuery = nav.searchInput
    /\ nav'.mode = nav.mode
    /\ last'.cmds = NoCmds
    /\ app' = app
    /\ dash' = dash

FilterHasFocus == app.view = "Navigator" /\ nav.searching /\ ~app.help

WorkloadWindow == visibleRange(nav, Len(filteredWorkloads(nav)))

\* C11: with 50 workloads, the cursor at 25 and a Navigator height of 10 the
\* visible window is [20,30); with 10 workloads, the cursor at 0 and a
\* height of 20 it is [0,10).
C11_WindowOfHeight ==
    /\ (Len(nav.workloads) = 50 /\ nav.cursor = 25 /\ nav.height = 10) =>
           WorkloadWindow = [start |-> 20, end |-> 30]
    /\ (Len(nav.workloads) = 10 /\ nav.cursor = 0 /\ nav.height = 20) =>
           WorkloadWindow = [start |-> 0, end |-> 10]

\* C11 as amended: the Navigator reserves 8 rows of its height, so the
\* window of 10 rows [20,30) is the one of a Navigator height of 18; a height
\* of 10 leaves fewer than 5 rows and falls back to 15 rows, [18,33).
C11_WindowOfRows ==
    /\ (Len(nav.workloads) = 50 /\ nav.cursor = 25 /\ nav.height = 18) =>
           WorkloadWindow = [start |-> 20, end |-> 30]
    /\ (Len(nav.workloads) = 50 /\ nav.cursor = 25 /\ nav.height = 10) =>
           WorkloadWindow = [start |-> 18, end |-> 33]
    /\ (Len(nav.workloads) = 10 /\ nav.cursor = 0 /\ nav.height = 20) =>
           WorkloadWindow = [start |-> 0, end |-> 10]

C11_Witness ==
    /\ Len(nav.workloads) = 50
    /\ nav.cursor = 25
    /\ nav.height = 18
    /\ WorkloadWindow = [start |-> 20, end |-> 30]

\* a key press that the Root Controller matches against its own bindings: the
\* help overlay is hidden and the filter does not have input focus
RootHandles(k) ==
    /\ last'.msg = KeyMsg(k)
    /\ ~app.help
    /\ ~(app.view = "Navigator" /\ nav.searching)

\* C12: Enter on a workload in Workloads mode records that workload, sets
\* loading and requests that workload's pods, the view staying the Navigator
\* and the mode staying Workloads; the mode becomes Pods only in the step
\* that handles a successful pods result, and that step installs the pod
\* list with the cursor at 0.
C12_EnterWorkloadLoadsPods ==
    [][ /\ (/\ RootHandles("enter")
            /\ app.view = "Navigator"
            /\ nav.mode = "Workloads"
            /\ SelectedWorkload(nav) # NoItem) =>
               /\ app' = [app EXCEPT !.workload = SelectedWorkload(nav),
                                     !.loading = TRUE]
               /\ last'.cmds = {LoadPodsCmd(SelectedWorkload(nav))}
               /\ app'.view = "Navigator"
               /\ nav'.mode = "Workloads"
        /\ (nav'.mode = "Pods" /\ nav.mode # "Pods") =>
               last'.msg.type = "podsLoadedMsg" /\ ~last'.msg.err
        /\ (last'.msg.type = "podsLoadedMsg" /\ ~last'.msg.err) =>
               /\ nav'.mode = "Pods"
               /\ nav'.pods = ClusterPods
               /\ nav'.cursor = 0
      ]_vars

C12_Witness ==
    /\ last.msg = KeyMsg("enter")
    /\ last.cmds = {LoadPodsCmd(WorkloadAt(2))}
    /\ app.workload = WorkloadAt(2)
    /\ app.loading
    /\ app.view = "Navigator"
    /\ nav.mode = "Workloads"
    /\ nav.cursor = 1

\* C13: Enter on a pod in Pods mode switches the view to the Dashboard,
\* records that pod in the Root Controller and in the Dashboard, issues
\* exactly one dashboard-data fetch for that pod and starts exactly one
\* refresh tick; Enter with an empty (filtered) pod list changes nothing.
C13_EnterPodOpensDashboard ==
    [][ (RootHandles("enter") /\ app.view = "Navigator" /\ nav.mode = "Pods") =>
            IF SelectedPod(nav) # NoItem
            THEN /\ app'.view = "Dashboard"
                 /\ app'.pod = SelectedPod(nav)
                 /\ dash'.pod = SelectedPod(nav)
                 /\ last'.cmds = {LoadDashboardDataCmd(SelectedPod(nav), FALSE), TickCmd}
                 /\ app'.exit = "running"
            ELSE /\ filteredPods(nav) = <<>>
                 /\ app' = app /\ nav' = nav /\ dash' = dash
                 /\ last'.cmds = NoCmds
      ]_vars

\* C14: Enter on a namespace in Namespace mode commits it as the client
\* namespace, and Enter in ResourceType mode commits the selected resource
\* type in the Navigator; either hands the selection to the preferences,
\* returns the Navigator to Workloads mode and issues one workloads reload
\* for the namespace and resource type now committed.
C14_EnterCommitsSelection ==
    [][ (RootHandles("enter") /\ app.view = "Navigator") =>
            /\ (nav.mode = "Namespace" /\ SelectedNamespace(nav) # <<>>) =>
                   /\ app'.namespace = SelectedNamespace(nav)
                   /\ app'.config.LastNamespace = SelectedNamespace(nav)
                   /\ nav'.resourceType = nav.resourceType
                   /\ nav'.mode = "Workloads"
                   /\ last'.cmds = {[type |-> "loadedMsg",
                                     namespace |-> SelectedNamespace(nav),
                                     resourceType |-> nav.resourceType]}
            /\ nav.mode = "ResourceType" =>
                   /\ nav'.resourceType = SelectedResourceType(nav)
                   /\ app'.config.LastResourceType = SelectedResourceType(nav)
                   /\ app'.namespace = app.namespace
                   /\ nav'.mode = "Workloads"
                   /\ last'.cmds = {[type |-> "loadedMsg",
                                     namespace |-> app.namespace,
                                     resourceType |-> SelectedResourceType(nav)]}
      ]_vars

C14_Witness ==
    /\ last.msg = KeyMsg("enter")
    /\ last.cmds = {[type |-> "loadedMsg", namespace |-> NamespaceAt(2),
                     resourceType |-> "statefulsets"]}
    /\ app.namespace = NamespaceAt(2)
    /\ app.config = [LoadedConfig EXCEPT !.LastNamespace = NamespaceAt(2),
                                         !.LastResourceType = "statefulsets"]
    /\ nav.resourceType = "statefulsets"
    /\ nav.mode = "Workloads"

\* C15: Back from the Dashboard returns to the Navigator in Pods mode and
\* clears the selected pod; Back from Pods mode returns to Workloads mode
\* and issues a workloads reload; Back from Namespace or ResourceType mode
\* returns to Workloads mode with no load and leaves the committed namespace
\* and resource type unchanged; Back in Workloads mode changes nothing.
C15_Back ==
    [][ RootHandles("esc") =>
            CASE app.view = "Dashboard" ->
                    /\ app'.view = "Navigator"
                    /\ nav'.mode = "Pods"
                    /\ app'.pod = NoItem
                    /\ last'.cmds = NoCmds
              [] nav.mode = "Pods" ->
                    /\ app'.view = "Navigator"
                    /\ nav'.mode = "Workloads"
                    /\ last'.cmds = {[type |-> "loadedMsg", namespace |-> app.namespace,
                                      resourceType |-> nav.resourceType]}
              [] nav.mode \in {"Namespace", "ResourceType"} ->
                    /\ app' = app
                    /\ nav'.mode = "Workloads"
                    /\ nav'.resourceType = nav.resourceType
                    /\ last'.cmds = NoCmds
              [] OTHER ->
                    /\ app' = app /\ nav' = nav /\ dash' = dash
                    /\ last'.cmds = NoCmds
      ]_vars

C15_Witness ==
    /\ last.msg = KeyMsg("esc")
    /\ last.cmds = NoCmds
    /\ app.view = "Navigator"
    /\ app.pod = NoItem
    /\ app.workload # NoItem
    /\ dash.pod # NoItem
    /\ nav.mode = "Pods"

\* C16: the refresh timer is one self-rescheduling chain: in every reachable
\* state, also after entering a pod, going back and entering a pod again, at
\* most one refresh tick is pending.
C16_AtMostOneTick == CopiesIn(TickCmd, inflight) <= 1

\* the results of the structural loads, and the request a result answers
StructuralResults == {"loadedMsg", "podsLoadedMsg"}
Request(msg) == [f \in DOMAIN msg \ {"err"} |-> msg[f]]

\* C17: a workloads or pods result that carries an error makes the error
\* fill the screen; a refresh handled right after it issues the identical
\* request again; and when a load succeeds while the error is shown, the
\* error is no longer shown and the loaded data is installed.
C17_RetryClearsError ==
    [][ /\ (last'.msg.type \in StructuralResults /\ last'.msg.err) =>
               View(app') = "Error"
        /\ (last.msg.type \in StructuralResults /\ last.msg.err /\ RootHandles("r")) =>
               last'.cmds = {Request(last.msg)}
        /\ (app.err /\ last'.msg.type \in StructuralResults /\ ~last'.msg.err) =>
               /\ View(app') # "Error"
               /\ last'.msg.type = "loadedMsg" => nav'.workloads = ClusterWorkloads
               /\ last'.msg.type = "podsLoadedMsg" => nav'.pods = ClusterPods
      ]_vars

\* the keys bound to quit, help, refresh, back and enter
RootKeys == KeyQuit \cup KeyHelp \cup KeyRefresh \cup KeyBack \cup KeyEnter

\* C18: while the help overlay is hidden and the filter does not have input
\* focus, a key bound to quit, help, refresh, back or enter is handled by the
\* Root Controller and is not forwarded to the Navigator or the Dashboard,
\* whatever overlay the Dashboard shows: the Dashboard is left as it was.
C18_GlobalKeysStayAtRoot ==
    [][ (\E k \in RootKeys : RootHandles(k)) =>
            /\ last'.to = {"Root"}
            /\ app.view = "Dashboard" => dash' = dash
      ]_vars

C18_Witness ==
    /\ last.msg = KeyMsg("enter")
    /\ last.to = {"Root"}
    /\ app.view = "Dashboard"
    /\ dash.podActionMenu.visible

\* C19: while the ResultViewer is visible on the Dashboard, an Escape or q
\* key press closes the ResultViewer and changes nothing else of the
\* application state.
C19_EscOrQClosesResultViewer ==
    [][ (/\ app.view = "Dashboard"
         /\ ~app.help
         /\ dash.resultViewer.visible
         /\ last'.msg \in {KeyMsg("esc"), KeyMsg("q")}) =>
            /\ dash' = [dash EXCEPT !.resultViewer.visible = FALSE]
            /\ app' = app
            /\ nav' = nav
            /\ last'.cmds = NoCmds
      ]_vars

\* a key reaches the key switch of the Dashboard when no overlay is visible
\* and the logs panel is not searching
AtKeySwitch(d) == ~HasActiveOverlay(d) /\ ~(d.focus = "Logs" /\ LogsIsSearching(d))

FocusKeys ==
    KeyNextPanel \cup KeyPrevPanel \cup KeyPanel1 \cup KeyPanel2 \cup KeyPanel3 \cup KeyPanel4

\* C20: the fullscreen toggle only flips the fullscreen flag, the focused
\* panel and everything else of the Dashboard staying as it was; the
\* focus-changing keys (next and previous panel, the panel keys 1 to 4) leave
\* the fullscreen flag unchanged; the focus is always one of the four panels.
C20_ToggleOnlyFlips ==
    [][ /\ (last'.msg.type = "KeyMsg" /\ AtKeySwitch(dash)) =>
               /\ last'.msg.key \in KeyToggleFullView =>
                      dash' = [dash EXCEPT !.fullscreen = ~@]
               /\ last'.msg.key \in FocusKeys => dash'.fullscreen = dash.fullscreen
        /\ dash'.focus \in {Panels[i] : i \in 1..4}
      ]_vars

\* C20 as amended: the fullscreen toggle flips the fullscreen flag and, as
\* every key that reaches the key switch, clears the status message; it
\* leaves the focused panel and the rest of the Dashboard unchanged; the
\* focus-changing keys leave the fullscreen flag unchanged; the focus is
\* always one of the four panels.
C20_ToggleFlipsAndClearsStatus ==
    [][ /\ (last'.msg.type = "KeyMsg" /\ AtKeySwitch(dash)) =>
               /\ last'.msg.key \in KeyToggleFullView =>
                      dash' = [dash EXCEPT !.fullscreen = ~@, !.statusMsg = NoStatus]
               /\ last'.msg.key \in FocusKeys => dash'.fullscreen = dash.fullscreen
        /\ dash'.focus \in {Panels[i] : i \in 1..4}
      ]_vars

C20_Witness ==
    /\ last.msg = KeyMsg("v")
    /\ last.to = {"Dashboard"}
    /\ dash.fullscreen
    /\ dash.focus = "Metrics"
    /\ dash.statusMsg = NoStatus

\* C21: a quit (the quit key outside the filter input, ctrl+c in it) hands
\* the current preferences to persistence in the step that returns the
\* terminate command; no step takes the program to its end through quit
\* without that save.
C21_QuitSaves ==
    [][ /\ ((\E k \in KeyQuit : RootHandles(k))
              \/ (FilterHasFocus /\ last'.msg = KeyMsg("ctrl+c"))) =>
               /\ app'.exit = "quit"
               /\ last'.cmds = {QuitCmd}
        /\ (app.exit = "running" /\ app'.exit = "quit") =>
               /\ app'.saved = app.config
               /\ app'.config = app.config
               /\ QuitCmd \in last'.cmds
      ]_vars

C21_Witness ==
    /\ app.exit = "quit"
    /\ last.msg = KeyMsg("q")
    /\ app.config = [LoadedConfig EXCEPT !.LastNamespace = NamespaceAt(2),
                                         !.LastResourceType = "statefulsets"]
    /\ app.saved = app.config

Favorites == app.config.FavoriteItems

\* a list with one item left out
Without(list, item) == SelectSeq(list, LAMBDA x : x # item)

\* C22: under any sequence of AddFavorite and RemoveFavorite the favorites
\* never hold a duplicate; adding a present item and removing an absent one
\* leave the list unchanged; adding an absent item makes it a favorite and
\* keeps the others in order; removing a present item deletes exactly that
\* item and keeps the others in order.
C22_FavoritesOrderedSet ==
    [][ /\ \A i, j \in 1..Len(Favorites') : Favorites'[i] = Favorites'[j] => i = j
        /\ last'.msg.type = "AddFavorite" =>
               IF IsFavorite(app.config, last'.msg.item)
               THEN Favorites' = Favorites
               ELSE /\ IsFavorite(app'.config, last'.msg.item)
                    /\ Without(Favorites', last'.msg.item) = Favorites
        /\ last'.msg.type = "RemoveFavorite" =>
               IF ~IsFavorite(app.config, last'.msg.item)
               THEN Favorites' = Favorites
               ELSE /\ Len(Favorites') = Len(Favorites) - 1
                    /\ Favorites' = Without(Favorites, last'.msg.item)
      ]_vars

C22_Witness ==
    /\ last.msg = [type |-> "RemoveFavorite", item |-> "default/db"]
    /\ Favorites = <<"default/web", "kube-system/dns", "default/job">>

\* C23: under every interleaving of key presses and results the Navigator is
\* never in Pods mode without a selected workload, and Enter in Pods mode
\* never dereferences a missing workload.
C23_PodsModeHasWorkload ==
    /\ nav.mode = "Pods" => app.workload # NoItem
    /\ app.exit # "panic"

\* the dashboard-data fetches in flight that a tick issued
TickFetches == Count(inflight, {m \in BagToSet(inflight) :
                                  m.type = "dashboardDataMsg" /\ m.byTick})

\* C24: the next refresh tick is scheduled only after the dashboard-data
\* fetch the previous tick issued has completed: no step that issues a fetch
\* for a tick schedules the next tick with it, and at most one tick-issued
\* dashboard-data fetch is in flight at any time.
C24_TicksWaitForFetch ==
    [][ /\ (last'.msg.type = "tickMsg"
            /\ \E c \in last'.cmds : c.type = "dashboardDataMsg") =>
               TickCmd \notin last'.cmds
        /\ TickFetches' <= 1
      ]_vars

\* C25: Back from the Dashboard stops the refresh timer: after that step no
\* tick remains scheduled, a tick handled in the Navigator view schedules no
\* further tick, and no tick issues a dashboard-data fetch in that view.
C25_BackStopsTimer ==
    [][ /\ (RootHandles("esc") /\ app.view = "Dashboard") =>
               CopiesIn(TickCmd, inflight') = 0
        /\ (last'.msg.type = "tickMsg" /\ app.view = "Navigator") =>
               last'.cmds = NoCmds
      ]_vars


\* the parts of the Navigator a load result may leave changed when it
\* installs a collection: everything but the named fields stays
NavSameBut(n1, n2, fields) ==
    \A f \in DOMAIN n1 \ fields : n1[f] = n2[f]

\* C26: each load result clears the loading flag and changes only its own
\* slice: a namespaces+workloads result only the workload and namespace
\* collections, a pods result only the pod collection with the switch to Pods
\* mode, a dashboard payload only the Dashboard's data; none changes the view,
\* the selected workload or pod, or the cursor and filter of a Navigator mode
\* it does not belong to
C26_LoadResultFrame ==
    [][ /\ last'.msg.type \in {"loadedMsg", "podsLoadedMsg", "dashboardDataMsg"} =>
               /\ ~app'.loading
               /\ app'.view = app.view
               /\ app'.workload = app.workload
               /\ app'.pod = app.pod
        /\ (last'.msg.type = "loadedMsg" /\ ~last'.msg.err) =>
               /\ dash' = dash
               /\ NavSameBut(nav, nav', {"workloads", "namespaces", "cursor"})
               /\ nav.mode \in {"Pods", "ResourceType"} => nav'.cursor = nav.cursor
        /\ (last'.msg.type = "podsLoadedMsg" /\ ~last'.msg.err) =>
               /\ dash' = dash
               /\ nav' = SetMode(SetPods(nav, nav'.pods), "Pods")
               /\ nav'.workloads = nav.workloads
               /\ nav'.namespaces = nav.namespaces
        /\ last'.msg.type = "dashboardDataMsg" =>
               /\ nav' = nav
               /\ dash' = DashSetData(dash, [f \in DataFields |-> dash'[f]])
      ]_vars


(***************************************************************************)
(* Pod actions chosen in quick succession: the Dashboard alone, the keys   *)
(* that open the pod-action menu, pick delete, exec or port-forward and    *)
(* answer the dialog, and up to MaxResults results in flight, so that a    *)
(* key press can be handled before the result of the previous one arrives. *)
(* last.selected remembers the destructive selection handled most recently.*)
(***************************************************************************)
PendingKeys == {"x", "1", "2", "4", "y", "n"}

PendingInit ==
    /\ nav = NewNavigator
    /\ dash = DashSetPod(NewDashboard, PodAt(1))
    /\ app = InitApp
    /\ inflight = EmptyBag
    /\ last = NoLast @@ [selected |-> NoAction]

Selected(msg) ==
    IF msg.type = "PodActionMenuResult" /\ msg.item.action \in Destructive
    THEN msg.item ELSE last.selected

PendingApply(msg, r, rest) ==
    /\ BagCardinality(Issue(rest, r.cmds)) <= MaxResults
    /\ dash' = r.d
    /\ inflight' = Issue(rest, r.cmds)
    /\ last' = [msg |-> msg, cmds |-> r.cmds, to |-> r.to, selected |-> Selected(msg)]
    /\ UNCHANGED <<app, nav>>

PendingKeyPress ==
    \E k \in PendingKeys :
        /\ dash.pod # NoItem
        /\ PendingApply(KeyMsg(k), DashKey(dash, k, TRUE), inflight)

PendingDeliver ==
    \E m \in BagToSet(inflight), ok \in BOOLEAN :
        /\ ok \/ m.type = "ExecProcess"
        /\ PendingApply(m @@ [ok |-> ok],
                        DashDispatch(dash, m, ok), inflight (-) SetToBag({m}))

PendingNext ==
    \/ PendingKeyPress
    \/ PendingDeliver

SpecPending == PendingInit /\ [][PendingNext]_vars

\* C27: the PendingAction becomes non-empty only in the step that handles an
\* exec or port-forward menu selection, and after the step that handles any
\* ConfirmResult (confirmed or cancelled, of any action kind) it is empty
C27_PendingActionLifecycle ==
    [][ /\ (dash'.pendingAction # NoAction /\ dash'.pendingAction # dash.pendingAction) =>
               /\ last'.msg.type = "PodActionMenuResult"
               /\ last'.msg.item.action \in {"exec", "port-forward"}
        /\ last'.msg.type = "ConfirmResult" => dash'.pendingAction = NoAction
      ]_vars


\* the command c carries out the selected menu item
Carries(c, item) ==
    \/ /\ c.type = "DeletePodRequest"
       /\ item.action = "delete"
       /\ c.pod = item.command[2]
    \/ /\ c.type = "ExecProcess"
       /\ item.action \in {"exec", "port-forward"}
       /\ c.command = item.command

\* C28: a newer destructive selection replaces an unconfirmed older one: the
\* step that handles a confirming ConfirmResult executes at most one action,
\* and only the destructive selection handled most recently before it; no
\* other step executes anything
C28_OnlyLatestSelectionExecuted ==
    [][ /\ (last'.msg.type = "ConfirmResult" /\ last'.msg.confirmed) =>
               /\ Cardinality(last'.cmds) <= 1
               /\ \A c \in last'.cmds : Carries(c, last.selected)
        /\ (\E c \in last'.cmds : Executes(c)) =>
               last'.msg.type = "ConfirmResult" /\ last'.msg.confirmed
      ]_vars


\* C29: the status line is cleared on the next keystroke: when the status
\* message is non-empty, the step handling a key press delivered to the
\* Dashboard leaves it empty, or holding a notice that step wrote
C29_KeyClearsStatus ==
    [][ (last'.msg.type = "KeyMsg" /\ dash.statusMsg # NoStatus) =>
            \/ dash'.statusMsg = NoStatus
            \/ dash'.statusMsg # dash.statusMsg
      ]_vars


\* the results of the Dashboard's own commands
DashboardResults ==
    {"DescribeOutputMsg", "ExecProcess", "ActionMenuResult", "PodActionMenuResult",
     "ConfirmResult"}

\* C30: no cancellation: every asynchronous result is applied to the slice it
\* targets in the step that handles it, whatever the view and the Navigator
\* mode are then: the workloads and namespaces, the pods, the Dashboard's
\* data, and for the results of the Dashboard's own commands what
\* Dashboard.Update makes of them
C30_ResultsAppliedAnywhere ==
    [][ /\ (last'.msg.type = "loadedMsg" /\ ~last'.msg.err) =>
               /\ nav'.workloads = ClusterWorkloads
               /\ nav'.namespaces = ClusterNamespaces
        /\ (last'.msg.type = "podsLoadedMsg" /\ ~last'.msg.err) =>
               /\ nav'.pods = ClusterPods
               /\ nav'.mode = "Pods"
        /\ last'.msg.type = "dashboardDataMsg" =>
               \A f \in DataFields : dash'[f] = last'.msg[f]
        /\ last'.msg.type \in DashboardResults =>
               /\ dash' = DashDispatch(dash, last'.msg, last'.msg.ok).d
               /\ last'.cmds = DashDispatch(dash, last'.msg, last'.msg.ok).cmds
      ]_vars


\* the payloads a dashboard-data fetch can resolve to
Payloads ==
    {DashboardData(pod, version, missing) :
        pod \in 1..MaxItems, version \in 1..MaxVersions, missing \in SUBSET FetchedFields}

\* the five display fields of the Dashboard
Displayed(d) == [f \in DataFields |-> d[f]]

\* C31: tick idempotence: each arriving dashboard payload replaces all five
\* display fields in one step, so in every state the five fields are those of
\* one single payload (or the empty ones of a new Dashboard) and never mix two
\* fetches, also when a tick's fetch and an earlier fetch are in flight together
C31_FieldsOfOnePayload ==
    /\ \/ Displayed(dash) = Displayed(NewDashboard)
       \/ Displayed(dash) \in Payloads
    /\ last.msg.type = "dashboardDataMsg" =>
           Displayed(dash) = [f \in DataFields |-> last.msg[f]]

C31_Witness ==
    /\ last.msg.type = "dashboardDataMsg"
    /\ last.msg.byTick
    /\ \E m \in Pending("dashboardDataMsg") : ~m.byTick
    /\ Displayed(dash) = DashboardData(1, 2, {})


\* C32: partial dashboard-data failures are independent and silent: a payload
\* with any subset of logs, events, metrics and related resources missing
\* never sets the full-screen error and installs every field that is present;
\* with metrics missing the Metrics panel reads "metrics-server not available"
\* while the panels hold the logs and events of the same payload
C32_PartialFailuresSilent ==
    [][ last'.msg.type = "dashboardDataMsg" =>
            /\ app'.err = app.err
            /\ app'.view = app.view
            /\ \A f \in FetchedFields :
                   last'.msg[f] # Nil => dash'[f] = last'.msg[f]
            /\ last'.msg.metrics = Nil =>
                   /\ MetricsPanelView(dash') = "Resource Usage (metrics-server not available)"
                   /\ dash'.logs = last'.msg.logs
                   /\ dash'.events = last'.msg.events
            /\ last'.msg.metrics # Nil => MetricsPanelView(dash') = "Resource Usage"
      ]_vars

C32_Witness ==
    /\ last.msg.type = "dashboardDataMsg"
    /\ last.msg.metrics = Nil
    /\ last.msg.related = Nil
    /\ dash.logs = Fetched(1, 2)
    /\ dash.events = Fetched(1, 2)
    /\ ~dash.metricsAvailable
    /\ ~app.err
    /\ app.view = "Dashboard"


\* C33: every issued command resolves to one result message, so under fair
\* delivery the loading flag, once set by Enter or by a refresh, is eventually
\* cleared (or the program has ended)
C33_LoadingEventuallyCleared ==
    app.loading ~> (~app.loading \/ app.exit # "running")

C33_Witness ==
    /\ last.msg.type = "dashboardDataMsg"
    /\ ~last.msg.byTick
    /\ ~app.loading
    /\ app.exit = "running"
    /\ app.view = "Dashboard"


\* the message reports an action that failed
ActionFailed(msg) ==
    \/ msg.type \in {"ExecProcess", "DescribeOutputMsg"} /\ ~msg.ok
    \/ msg.type = "PodActionMenuResult" /\ msg.item.action = "copy" /\ ~msg.ok
    \/ msg.type = "ActionMenuResult" /\ msg.err

\* the notice of a failed action
FailureNotice(msg) ==
    CASE msg.type = "ExecProcess" -> <<"Command failed: ", "err">>
      [] msg.type = "DescribeOutputMsg" -> <<"Describe failed: ", "err">>
      [] OTHER -> <<"Copy failed: ", "err">>

\* C34: an action failure (a failed exec or port-forward process, a failed
\* describe, a failed clipboard copy) only writes a status-line notice: the
\* step that handles it leaves the Root Controller (error flag, view) and the
\* Navigator as they are, returns no command, and changes nothing of the
\* Dashboard but the status line, so no overlay becomes visible; with the
\* Dashboard shown the status line holds the failure's notice
C34_FailureOnlyWritesNotice ==
    [][ ActionFailed(last'.msg) =>
            /\ app' = app
            /\ nav' = nav
            /\ last'.cmds = NoCmds
            /\ dash' = [dash EXCEPT !.statusMsg = dash'.statusMsg]
            /\ app.view = "Dashboard" => dash'.statusMsg = FailureNotice(last'.msg)
      ]_vars

C34_Witness ==
    /\ ActionFailed(last.msg)
    /\ last.msg.type = "ExecProcess"
    /\ app.view = "Dashboard"
    /\ dash.statusMsg = <<"Command failed: ", "err">>
    /\ ~HasActiveOverlay(dash)
    /\ ~app.err


\* the rows the Navigator shows at its height (navigator.go 369-372)
VisibleRows(n) == IF n.height - 8 < 5 THEN 15 ELSE n.height - 8

Min(a, b) == IF a < b THEN a ELSE b

\* C35: the visible window is clamped: for every total, every cursor in
\* [0,total-1] and every height, the window [start,end) satisfies
\* 0 <= start <= cursor < end <= total and end - start = min(total, visible
\* rows), and it depends on nothing but total, cursor and height
C35_WindowClamped ==
    LET total == Len(filteredWorkloads(nav))
        w == WorkloadWindow
    IN  (nav.cursor >= 0 /\ nav.cursor < total) =>
            /\ 0 <= w.start
            /\ w.start <= nav.cursor
            /\ nav.cursor < w.end
            /\ w.end <= total
            /\ w.end - w.start = Min(total, VisibleRows(nav))
            /\ w = visibleRange([NewNavigator EXCEPT !.cursor = nav.cursor,
                                                     !.height = nav.height], total)

C35_Witness ==
    /\ Len(nav.workloads) = 50
    /\ nav.cursor = 49
    /\ nav.height = 20
    /\ WorkloadWindow = [start |-> 38, end |-> 50]
    /\ nav.searchQuery = <<>>


\* C36: in every reachable state of the Root Controller the view is the
\* Dashboard if and only if a pod is selected, and whenever the view is the
\* Dashboard a workload is selected as well
C36_ViewingIffPod ==
    /\ app.view = "Dashboard" <=> app.pod # NoItem
    /\ app.view = "Dashboard" => app.workload # NoItem

C36_Witness ==
    /\ last.msg = KeyMsg("esc")
    /\ app.view = "Navigator"
    /\ app.pod = NoItem
    /\ app.workload # NoItem
    /\ nav.mode = "Pods"
    /\ dash.pod # NoItem


\* C37: whenever the ConfirmDialog is visible for exec or port-forward, the
\* PendingAction is the item whose selection opened the dialog; and the step
\* that handles a confirming ConfirmResult for exec or port-forward launches a
\* command, under every interleaving of menu results and confirm results
C37_DialogHasItsPendingAction ==
    /\ [](dash.confirmDialog.visible /\ dash.confirmDialog.action \in {"exec", "port-forward"}
            => dash.pendingAction # NoAction /\ dash.pendingAction = last.selected)
    /\ [][ (/\ last'.msg.type = "ConfirmResult"
            /\ last'.msg.confirmed
            /\ last'.msg.action \in {"exec", "port-forward"}) =>
               \E c \in last'.cmds : c.type = "ExecProcess"
         ]_vars


\* the loads in flight that Enter or a refresh issued: every pods load, and
\* the dashboard-data fetches that no tick issued
UserLoads ==
    Pending("podsLoadedMsg") \cup {m \in Pending("dashboardDataMsg") : ~m.byTick}

\* C38: the loading flag reflects outstanding work: whenever it is false, no
\* load issued by Enter or by a refresh is still in flight
C38_LoadingCoversLoads ==
    ~app.loading => UserLoads = {}


\* C39: the overlay the Dashboard draws is the overlay that receives input:
\* in every Dashboard state with a pod set and an overlay visible, the overlay
\* View renders is the one Update delivers a key to
C39_DrawnOverlayGetsKeys ==
    (dash.pod # NoItem /\ HasActiveOverlay(dash)) =>
        \A k \in DashKeys : DashKey(dash, k, TRUE).to = {DashView(dash)}

C39_Witness ==
    /\ dash.pod # NoItem
    /\ dash.resultViewer.visible
    /\ dash.podActionMenu.visible
    /\ ~dash.confirmDialog.visible
    /\ DashView(dash) = "ResultViewer"


\* C40: while the Root Controller's help overlay is visible, a key press other
\* than ? and esc is discarded without any state change (no quit, no refresh,
\* no navigation, nothing forwarded to the Navigator or the Dashboard), and ?
\* or esc only hides the help overlay
C40_HelpSwallowsKeys ==
    [][ (last'.msg.type = "KeyMsg" /\ app.help) =>
            /\ nav' = nav
            /\ dash' = dash
            /\ inflight' = inflight
            /\ last'.cmds = NoCmds
            /\ last'.to = {"RootHelp"}
            /\ app' = IF last'.msg.key \in {"?", "esc"}
                      THEN [app EXCEPT !.help = FALSE] ELSE app
      ]_vars

C40_Witness ==
    /\ last.msg = KeyMsg("ctrl+c")
    /\ app.help
    /\ app.exit = "running"
    /\ app.view = "Dashboard"
    /\ app.loading

=============================================================================
